---- MODULE Spec2Model ----
(***************************************************************************)
(* Model of the modality conversion pipeline of the repository:           *)
(*   - the text heuristics of any2any_ai.py (summarize_text, keywords),   *)
(*   - the audio format normalizer (ensure_wav_16k_mono, _prepare_audio), *)
(*   - the transcription engines (stt_audio_to_text, SpeechToText).       *)
(* A text is a sequence of one-character strings; a word (a regex match)  *)
(* is a string, built by concatenating the characters it matched.         *)
(***************************************************************************)
EXTENDS Integers, Sequences, FiniteSets, TLC

VARIABLES
    text,        \* the text handed to the text tools (sequence of characters)
    textOp,      \* the last text tool that ran: "none", "summarize", "keywords"
    textArg,     \* its max_sentences or k
    summary,     \* the string summarize_text returned
    kwords,      \* the list keywords returned
    fs,          \* the audio files on disk: file name -> content
    haveFfmpeg,  \* whether ffmpeg is on PATH on this host
    normCount,   \* the number of normalize calls made
    normLast,    \* the record of the last normalize call
    normPrev,    \* the record of the call before it
    modelDir,    \* the acoustic model directory: "absent", "partial", "present"
    stt,         \* the SpeechToText engine of audio_processor.py
    sttCalls,    \* the number of transcribe_audio_file calls made
    sttLast,     \* the record of the last transcribe_audio_file call
    cli,         \* the run of stt_audio_to_text of the conversion CLI
    tts,         \* the pyttsx3 engine held by TextToSpeech
    ttsCall,     \* the last speak_text / save_speech request and where it stands
    bg,          \* the background thread of a non-blocking speak
    zips,        \* the model archives lying in the models directory
    bootLast,    \* the record of the last model bootstrap call
    crun,        \* the run of the conversion CLI, up to its model load
    app,         \* the run of main.py
    proc,        \* one invocation of the conversion CLI: command line, host, exit
    player,      \* one call of AudioPlayer.play_audio_file on a host
    web,         \* the last /api/transcribe request of the web interface
    uploads      \* the upload requests of the web interface, side by side

textVars == <<text, textOp, textArg, summary, kwords>>

normVars == <<fs, haveFfmpeg, normCount, normLast, normPrev>>

sttVars == <<modelDir, stt, sttCalls, sttLast, cli>>

ttsVars == <<tts, ttsCall, bg>>

bootVars == <<zips, bootLast, crun, app>>

appVars == <<ttsVars, bootVars, proc, player, web, uploads>>

(***************************************************************************)
(* Bounds of the explored inputs.                                          *)
(***************************************************************************)
MaxUnits == 3          \* a generated text has at most this many word+separator units
MaxSentencesArg == 3   \* max_sentences ranges over -1..MaxSentencesArg
MaxK == 3              \* k ranges over -1..MaxK
MaxNormCalls == 3      \* normalize is called at most this many times
MaxFrames == 3         \* a recording has at most this many frames
MaxSttCalls == 2       \* transcribe_audio_file is called at most this many times
ChunkFrames == 2       \* the frames of one readframes(4000) chunk, scaled down
MaxTtsCalls == 3       \* synthesis is requested at most this many times
MaxRuns == 3           \* each program is started at most this many times
MaxPlays == 2          \* play_audio_file is called at most this many times
MaxRequests == 2       \* at most this many upload requests arrive
MaxSeconds == 1        \* the clock moves on at most this many seconds

(***************************************************************************)
(* Characters and the character classes of the regular expressions.        *)
(***************************************************************************)
LowerLetters ==
    {"a", "b", "c", "d", "e", "f", "g", "h", "i", "j", "k", "l", "m", "n", "o",
     "p", "q", "r", "s", "t", "u", "v", "w", "x", "y", "z"}

UpperToLower ==
    "A" :> "a" @@ "B" :> "b" @@ "C" :> "c" @@ "D" :> "d" @@ "E" :> "e" @@
    "F" :> "f" @@ "G" :> "g" @@ "H" :> "h" @@ "I" :> "i" @@ "J" :> "j" @@
    "K" :> "k" @@ "L" :> "l" @@ "M" :> "m" @@ "N" :> "n" @@ "O" :> "o" @@
    "P" :> "p" @@ "Q" :> "q" @@ "R" :> "r" @@ "S" :> "s" @@ "T" :> "t" @@
    "U" :> "u" @@ "V" :> "v" @@ "W" :> "w" @@ "X" :> "x" @@ "Y" :> "y" @@
    "Z" :> "z"

\* \s of the sentence splitter, and the characters str.strip() removes
Whitespace == {" ", "\n", "\t"}

\* [.!?] of the lookbehind in the sentence splitter
SentenceEnders == {".", "!", "?"}

\* [A-Za-z'] of the word pattern
WordChars == LowerLetters \cup DOMAIN UpperToLower \cup {"'"}

\* the stopword set of summarize_text and of keywords (the same literal)
stop ==
    {"the", "a", "an", "and", "or", "but", "if", "then", "so", "of", "in", "on",
     "at", "to", "for", "from", "with", "as", "is", "are", "was", "were", "be",
     "been", "being", "by", "this", "that", "it", "you", "i", "he", "she", "we",
     "they", "them", "us", "our", "your", "his", "her", "their", "not", "no",
     "do", "does", "did", "will", "would", "can", "could", "should"}

(***************************************************************************)
(* String primitives of Python used by the text tools.                     *)
(***************************************************************************)
\* str.lower(), one character
LowerChar(c) == IF c \in DOMAIN UpperToLower THEN UpperToLower[c] ELSE c

\* str.lower()
lower(t) == [i \in 1..Len(t) |-> LowerChar(t[i])]

RECURSIVE LStrip(_)
LStrip(t) ==
    IF t = <<>> THEN <<>>
    ELSE IF Head(t) \in Whitespace THEN LStrip(Tail(t)) ELSE t

RECURSIVE RStrip(_)
RStrip(t) ==
    IF t = <<>> THEN <<>>
    ELSE IF t[Len(t)] \in Whitespace THEN RStrip(SubSeq(t, 1, Len(t) - 1)) ELSE t

\* str.strip()
strip(t) == RStrip(LStrip(t))

\* the end of the whitespace run that starts at position i: the first
\* position at or after i that holds no whitespace (Len(t) + 1 if none)
RECURSIVE SkipWhitespace(_, _)
SkipWhitespace(t, i) ==
    IF i > Len(t) THEN i
    ELSE IF t[i] \in Whitespace THEN SkipWhitespace(t, i + 1) ELSE i

\* re.split(r'(?<=[.!?])\s+', t), scanning from position i with the piece
\* cur collected so far: a maximal whitespace run directly after a sentence
\* ender separates two pieces; a run at the very end leaves an empty piece
RECURSIVE SplitScan(_, _, _)
SplitScan(t, i, cur) ==
    IF i > Len(t) THEN <<cur>>
    ELSE IF i > 1 /\ t[i] \in Whitespace /\ t[i - 1] \in SentenceEnders
         THEN <<cur>> \o SplitScan(t, SkipWhitespace(t, i), <<>>)
         ELSE SplitScan(t, i + 1, Append(cur, t[i]))

re_split(t) == SplitScan(t, 1, <<>>)

\* re.findall(r"[A-Za-z']+", t): the maximal runs of word characters
RECURSIVE FindScan(_, _, _)
FindScan(t, i, cur) ==
    LET done == IF cur = "" THEN <<>> ELSE <<cur>>
    IN  IF i > Len(t) THEN done
        ELSE IF t[i] \in WordChars THEN FindScan(t, i + 1, cur \o t[i])
             ELSE done \o FindScan(t, i + 1, "")

re_findall(t) == FindScan(t, 1, "")

\* " ".join(pieces)
RECURSIVE JoinSpace(_)
JoinSpace(pieces) ==
    IF pieces = <<>> THEN <<>>
    ELSE IF Len(pieces) = 1 THEN pieces[1]
         ELSE pieces[1] \o <<" ">> \o JoinSpace(Tail(pieces))

\* seq[:n] of Python: the first n items, or all but the last -n when n < 0
PySliceTo(seq, n) ==
    LET m == IF n >= 0 THEN (IF n < Len(seq) THEN n ELSE Len(seq))
             ELSE (IF Len(seq) + n > 0 THEN Len(seq) + n ELSE 0)
    IN  SubSeq(seq, 1, m)

(***************************************************************************)
(* The frequency table: a dict, kept as the sequence of its items          *)
(* [w, n] in insertion order (the order dict.items() yields them).         *)
(***************************************************************************)
\* freq.get(w, 0)
freq_get(freq, w) ==
    IF \E j \in 1..Len(freq) : freq[j].w = w
    THEN freq[CHOOSE j \in 1..Len(freq) : freq[j].w = w].n
    ELSE 0

\* freq[w] = n: a new key goes last, an existing key keeps its place
freq_set(freq, w, n) ==
    IF \E j \in 1..Len(freq) : freq[j].w = w
    THEN [j \in 1..Len(freq) |-> IF freq[j].w = w THEN [w |-> w, n |-> n] ELSE freq[j]]
    ELSE Append(freq, [w |-> w, n |-> n])

\* (mutant) the filter without the length test
skipped_stop_only(w) == w \in stop

\* the filter of the counting loop: stopwords and words of length <= 2
\* are skipped
skipped(w) == w \in stop \/ Len(w) <= 2

\* the counting loop "for w in words: ..." continued from the table freq
RECURSIVE freq_loop(_, _)
freq_loop(words, freq) ==
    IF words = <<>> THEN freq
    ELSE LET w == Head(words)
         IN  IF skipped(w) THEN freq_loop(Tail(words), freq)
             ELSE freq_loop(Tail(words), freq_set(freq, w, freq_get(freq, w) + 1))

\* the frequency table of a text
freq_table(t) == freq_loop(re_findall(lower(t)), <<>>)

(***************************************************************************)
(* sorted(items, key=..., reverse=True): a stable sort into descending     *)
(* order.  Items with equal keys keep their original relative order.  The  *)
(* items are named by their positions 1..n, and gt[i][j] tells whether the *)
(* key of item i is greater than the key of item j; the result is the      *)
(* sequence of the positions in sorted order.                              *)
(***************************************************************************)
\* item e put in its place in a list that is already sorted: before the
\* first item that is strictly smaller, hence after every equal one
insert_desc(sorted, e, gt) ==
    LET smaller == {j \in 1..Len(sorted) : gt[e][sorted[j]]}
        p == IF smaller = {} THEN Len(sorted) + 1
             ELSE CHOOSE j \in smaller : \A j2 \in smaller : j <= j2
    IN  SubSeq(sorted, 1, p - 1) \o <<e>> \o SubSeq(sorted, p, Len(sorted))

sorted_desc(n, gt) ==
    LET f[m \in 0..n] == IF m = 0 THEN <<>> ELSE insert_desc(f[m - 1], m, gt)
    IN  f[n]

\* sorted(ints): the members of a set of integers in ascending order
RECURSIVE sorted_asc(_)
sorted_asc(S) ==
    IF S = {} THEN <<>>
    ELSE LET m == CHOOSE x \in S : \A y \in S : x <= y
         IN  <<m>> \o sorted_asc(S \ {m})

(***************************************************************************)
(* summarize_text                                                          *)
(***************************************************************************)
\* score(sent): the float sum(freq of tokens) / (len(tokens) + 1e-9), kept
\* exactly as the pair of its numerator s and its token count n
score(sent, freq) ==
    LET tokens == re_findall(lower(sent))
        f[m \in 0..Len(tokens)] ==
            IF m = 0 THEN 0 ELSE f[m - 1] + freq_get(freq, tokens[m])
    IN  [s |-> f[Len(tokens)], n |-> Len(tokens)]

\* (mutant) the score without the division by the token count
score_greater_sum(a, b) == a.s > b.s

\* a.s / (a.n + 1e-9) > b.s / (b.n + 1e-9).  Cross-multiplied, this is
\* (a.s * b.n - b.s * a.n) + 1e-9 * (a.s - b.s) > 0; with the small integers
\* of a text the second term is below 1 in size, so it decides ties only.
score_greater(a, b) ==
    LET d == a.s * b.n - b.s * a.n
    IN  IF d # 0 THEN d > 0 ELSE a.s > b.s

\* the sentences of the text: re.split over the stripped text
sentences(t) == re_split(strip(t))

\* ranked: the sentence indices, stably sorted by descending score
ranked(t) ==
    LET sents == sentences(t)
        freq == freq_table(t)
        sc == [i \in 1..Len(sents) |-> score(sents[i], freq)]
    IN  sorted_desc(Len(sents),
                    [i \in 1..Len(sents) |->
                        [j \in 1..Len(sents) |-> score_greater(sc[i], sc[j])]])

\* (mutant) the top indices left in rank order, not sorted again
keep_idx_ranked(t, max_sentences) == PySliceTo(ranked(t), max_sentences)

\* keep_idx = sorted(i for i, _ in ranked[:max_sentences])
keep_idx(t, max_sentences) ==
    LET top == PySliceTo(ranked(t), max_sentences)
    IN  sorted_asc({top[j] : j \in 1..Len(top)})

\* (mutant) the early return without strip()
summarize_text_unstripped(t, max_sentences) ==
    LET sents == sentences(t)
    IN  IF Len(sents) <= max_sentences THEN t
        ELSE LET keep == keep_idx(t, max_sentences)
             IN  JoinSpace([j \in 1..Len(keep) |-> sents[keep[j]]])

summarize_text(t, max_sentences) ==
    LET sents == sentences(t)
    IN  IF Len(sents) <= max_sentences THEN strip(t)
        ELSE LET keep == keep_idx(t, max_sentences)
             IN  JoinSpace([j \in 1..Len(keep) |-> sents[keep[j]]])

(***************************************************************************)
(* keywords                                                                *)
(***************************************************************************)
\* (mutant) the sort without reverse=True
count_less(a, b) == a.n < b.n

\* (mutant) a sort that is not stable: equal counts change places
count_greater_or_equal(a, b) == a.n >= b.n

\* the key of the sort, x[1] of an item: its count
count_greater(a, b) == a.n > b.n

\* [w for w, _ in sorted(...)[:k]].  An entry of the returned list is written
\* as the tuple of its components: the code's entry is the word alone, <<w>>
\* (a (word, frequency) pair would be <<w, n>>).
keywords(t, k) ==
    LET freq == freq_table(t)
        order == sorted_desc(Len(freq),
                             [i \in 1..Len(freq) |->
                                 [j \in 1..Len(freq) |-> count_greater(freq[i], freq[j])]])
        top == PySliceTo(order, k)
    IN  [j \in 1..Len(top) |-> <<freq[top[j]].w>>]

(***************************************************************************)
(* Audio files.  A file name is the sequence of the dot-separated parts of *)
(* its name ("a.16kmono.wav" is <<"a", "16kmono", "wav">>); the directory  *)
(* is the same for all and left out.  The content of a file is a record:   *)
(* kind "wav" is a RIFF/WAVE file the wave module can open, with channel   *)
(* count ch, frame rate, sample width in bytes and frames; kind "other" is *)
(* anything else (wave.open raises wave.Error).  ok tells whether ffmpeg   *)
(* can decode it.  A frame stands for a stretch of audio: a spoken word    *)
(* ("w1", "w2") or silence ("sil").                                        *)
(***************************************************************************)
Wav(ch, rate, width, frames) ==
    [kind |-> "wav", ch |-> ch, rate |-> rate, width |-> width, ok |-> TRUE,
     frames |-> frames]

Compressed(frames) ==
    [kind |-> "other", ch |-> 2, rate |-> 44100, width |-> 2, ok |-> TRUE,
     frames |-> frames]

Garbage ==
    [kind |-> "other", ch |-> 0, rate |-> 0, width |-> 0, ok |-> FALSE,
     frames |-> <<>>]

\* the files that are new or changed in after
written(before, after) ==
    {n \in DOMAIN after : n \notin DOMAIN before \/ after[n] # before[n]}

\* the file system without file n
fs_remove(files, n) == [m \in (DOMAIN files) \ {n} |-> files[m]]

\* the file system with file n written (created or replaced) with content c
fs_write(files, n, c) ==
    [m \in (DOMAIN files) \cup {n} |-> IF m = n THEN c ELSE files[m]]

\* (mutant) the last suffix replaced by ".wav"
with_suffix_wav(n) ==
    (IF Len(n) > 1 THEN SubSeq(n, 1, Len(n) - 1) ELSE n) \o <<"wav">>

\* Path.with_suffix(".16kmono.wav"): the last suffix, if the name has one,
\* is replaced
with_suffix_16kmono(n) ==
    (IF Len(n) > 1 THEN SubSeq(n, 1, Len(n) - 1) ELSE n) \o <<"16kmono", "wav">>

\* ffmpeg -y -i src -ac 1 -ar 16000 -f wav dst: on success dst holds the
\* audio of src as 1-channel 16000 Hz 16-bit WAV; on an input it cannot
\* decode it fails, and leaves either nothing or (junk) an unusable dst
ffmpeg(files, src, dst, junk) ==
    IF files[src].ok
    THEN [ok |-> TRUE, fs |-> fs_write(files, dst, Wav(1, 16000, 2, files[src].frames))]
    ELSE [ok |-> FALSE, fs |-> IF junk THEN fs_write(files, dst, Garbage) ELSE files]

\* (mutant) the test of the fast path never succeeds: always convert
ensure_wav_16k_mono_no_fast_path(files, have, p, junk) ==
    IF ~have
    THEN [outcome |-> "exit", ret |-> <<>>, fs |-> files, ran |-> FALSE]
    ELSE LET tmp == with_suffix_16kmono(p)
             run == ffmpeg(files, p, tmp, junk)
         IN  IF run.ok
             THEN [outcome |-> "return", ret |-> tmp, fs |-> run.fs, ran |-> TRUE]
             ELSE [outcome |-> "raise", ret |-> <<>>, fs |-> run.fs, ran |-> TRUE]

\* ensure_wav_16k_mono(src_path) on the file system files, on a host where
\* ffmpeg is on PATH or not (have).  outcome "return" gives the path ret;
\* "exit" is fail() (exit code 1); "raise" is the CalledProcessError of
\* subprocess.run(check=True).  ran tells whether ffmpeg was invoked.
ensure_wav_16k_mono(files, have, p, junk) ==
    IF files[p].kind = "wav" /\ files[p].ch = 1 /\ files[p].rate = 16000
    THEN [outcome |-> "return", ret |-> p, fs |-> files, ran |-> FALSE]
    ELSE IF ~have
         THEN [outcome |-> "exit", ret |-> <<>>, fs |-> files, ran |-> FALSE]
         ELSE LET tmp == with_suffix_16kmono(p)
                  run == ffmpeg(files, p, tmp, junk)
              IN  IF run.ok
                  THEN [outcome |-> "return", ret |-> tmp, fs |-> run.fs, ran |-> TRUE]
                  ELSE [outcome |-> "raise", ret |-> <<>>, fs |-> run.fs, ran |-> TRUE]

\* SpeechToText._prepare_audio(audio_path).  Everything is inside one
\* try/except Exception that returns audio_path: the wave.Error of a file
\* that is no WAV, the FileNotFoundError of a missing ffmpeg and the
\* CalledProcessError of a failed conversion all end there.
prepare_audio(files, have, p, junk) ==
    IF files[p].kind # "wav"
    THEN [outcome |-> "return", ret |-> p, fs |-> files, ran |-> FALSE]
    ELSE IF files[p].ch = 1 /\ files[p].width = 2 /\ files[p].rate = 16000
         THEN [outcome |-> "return", ret |-> p, fs |-> files, ran |-> FALSE]
         ELSE IF ~have
              THEN [outcome |-> "return", ret |-> p, fs |-> files, ran |-> FALSE]
              ELSE LET output_path == with_suffix_16kmono(p)
                       run == ffmpeg(files, p, output_path, junk)
                   IN  IF run.ok
                       THEN [outcome |-> "return", ret |-> output_path,
                             fs |-> run.fs, ran |-> TRUE]
                       ELSE [outcome |-> "return", ret |-> p,
                             fs |-> run.fs, ran |-> TRUE]

(***************************************************************************)
(* The normalizer as a state machine: files lie in a directory of a host   *)
(* that has ffmpeg or not, and callers normalize one file after another    *)
(* through either implementation.  The last two calls are remembered.      *)
(***************************************************************************)
NameWav == <<"a", "wav">>

NameMp3 == <<"a", "mp3">>

\* the sound of the .wav file and of the .mp3 file
SoundOne == <<"w1", "sil">>

SoundTwo == <<"w2">>

WavContents ==
    {Wav(1, 16000, 2, SoundOne), Wav(1, 16000, 1, SoundOne),
     Wav(2, 44100, 2, SoundOne), Garbage}

Mp3Contents == {Compressed(SoundTwo), Garbage}

\* a file without a suffix, and a file that carries the name of a
\* normalized copy without being canonical audio
NameBare == <<"a">>

NameCopy == <<"a", "16kmono", "wav">>

InitFileSystems ==
    {[n \in {NameWav} |-> c] : c \in WavContents}
        \cup {[n \in {NameBare} |-> Compressed(SoundTwo)],
              [n \in {NameCopy} |-> Wav(2, 44100, 2, SoundOne)]}
        \cup {[n \in {NameMp3} |-> c] : c \in Mp3Contents}
        \cup {[n \in {NameWav, NameMp3} |-> IF n = NameWav THEN c ELSE d] :
                 c \in WavContents, d \in Mp3Contents}

NoCall ==
    [impl |-> "none", arg |-> <<>>, outcome |-> "none", ret |-> <<>>,
     ran |-> FALSE, before |-> <<>>]

NormIdle ==
    /\ fs = <<>>
    /\ haveFfmpeg = FALSE
    /\ normCount = 0
    /\ normLast = NoCall
    /\ normPrev = NoCall

InitNorm ==
    /\ fs \in InitFileSystems
    /\ haveFfmpeg \in BOOLEAN
    /\ normCount = 0
    /\ normLast = NoCall
    /\ normPrev = NoCall

\* the record of a call
CallRecord(impl, p, r) ==
    [impl |-> impl, arg |-> p, outcome |-> r.outcome, ret |-> r.ret,
     ran |-> r.ran, before |-> fs]

\* ensure_wav_16k_mono(p), as called by stt_audio_to_text on an existing file
NormalizeCli ==
    /\ normCount < MaxNormCalls
    /\ \E p \in DOMAIN fs, junk \in BOOLEAN :
          LET r == ensure_wav_16k_mono(fs, haveFfmpeg, p, junk)
          IN  /\ fs' = r.fs
              /\ normLast' = CallRecord("cli", p, r)
    /\ normPrev' = normLast
    /\ normCount' = normCount + 1
    /\ UNCHANGED haveFfmpeg
    /\ UNCHANGED <<textVars, sttVars>>
    /\ UNCHANGED appVars

\* self._prepare_audio(p), as called by transcribe_audio_file
NormalizeEngine ==
    /\ normCount < MaxNormCalls
    /\ \E p \in DOMAIN fs, junk \in BOOLEAN :
          LET r == prepare_audio(fs, haveFfmpeg, p, junk)
          IN  /\ fs' = r.fs
              /\ normLast' = CallRecord("engine", p, r)
    /\ normPrev' = normLast
    /\ normCount' = normCount + 1
    /\ UNCHANGED haveFfmpeg
    /\ UNCHANGED <<textVars, sttVars>>
    /\ UNCHANGED appVars

NextNorm == NormalizeCli \/ NormalizeEngine

(***************************************************************************)
(* The decoder: vosk.KaldiRecognizer, an external library, modelled by the *)
(* behaviour of its interface.  It hears the frames it is fed: a word      *)
(* frame adds the word to the hypothesis of the current utterance, and an  *)
(* utterance that ends in silence is at an endpoint.  st is "init" (new),  *)
(* "running" (an utterance is being decoded), "endpoint" (Result was       *)
(* taken) or "final" (FinalResult was taken).                              *)
(***************************************************************************)
NewRecognizer == [st |-> "init", words |-> <<>>, quiet |-> FALSE]

\* the decoder after hearing the frames of data, one after the other
RECURSIVE Hear(_, _)
Hear(rec, data) ==
    IF data = <<>> THEN rec
    ELSE IF Head(data) = "sil"
         THEN Hear([rec EXCEPT !.quiet = TRUE], Tail(data))
         ELSE Hear([rec EXCEPT !.words = Append(@, Head(data)), !.quiet = FALSE],
                   Tail(data))

\* rec.AcceptWaveform(data): a decoder whose result was taken starts a new
\* utterance; accepted tells whether the utterance is at an endpoint
AcceptWaveform(rec, data) ==
    LET base == IF rec.st \in {"endpoint", "final"} THEN NewRecognizer ELSE rec
        heard == Hear(base, data)
    IN  [rec |-> [heard EXCEPT !.st = "running"], accepted |-> heard.quiet]

\* rec.Result(): the text of the utterance, which is thereby finished
Result(rec) ==
    IF rec.st # "running" THEN [rec |-> rec, text |-> <<>>]
    ELSE [rec |-> [rec EXCEPT !.st = "endpoint"], text |-> rec.words]

\* rec.PartialResult(): the hypothesis so far; the utterance goes on
PartialResult(rec) == IF rec.st # "running" THEN <<>> ELSE rec.words

\* rec.FinalResult(): the text of everything heard since the last result
FinalResult(rec) ==
    IF rec.st # "running" THEN [rec |-> rec, text |-> <<>>]
    ELSE [rec |-> [rec EXCEPT !.st = "final"], text |-> rec.words]

(***************************************************************************)
(* The acoustic model directory on disk is "absent", "partial" (it exists  *)
(* but holds an incomplete model, left by an interrupted unpack) or        *)
(* "present".                                                              *)
(***************************************************************************)
\* (mutant) the model taken as loaded whatever is on disk
load_model_unchecked(dir) == "Ready"

\* SpeechToText._load_model: FileNotFoundError when the path does not
\* exist, and the exception of vosk.Model when it holds no usable model;
\* both are re-raised, so that the constructor fails
load_model(dir) ==
    IF dir = "absent" THEN "Failed"
    ELSE IF dir = "partial" THEN "Failed"
         ELSE "Ready"

\* what the decoder is given when the bytes of file content c are read as
\* 16000 Hz 16-bit mono PCM: its frames if it is such audio, and otherwise
\* whatever (other) the bytes happen to sound like
pcm_of(c, other) ==
    IF c.kind = "wav" /\ c.ch = 1 /\ c.rate = 16000 /\ c.width = 2 THEN c.frames
    ELSE other

\* SpeechToText.transcribe_audio_file(audio_path) on the recognizer rec of
\* the engine: the file _prepare_audio returns is read whole and given to
\* the decoder in one call; the text is Result() if that call reported an
\* endpoint and PartialResult() if not
transcribe_audio_file(rec, files, have, p, junk, other) ==
    LET prep == prepare_audio(files, have, p, junk)
        audio_data == pcm_of(prep.fs[prep.ret], other)
        acc == AcceptWaveform(rec, audio_data)
    IN  IF acc.accepted
        THEN [rec |-> Result(acc.rec).rec, text |-> Result(acc.rec).text,
              accepted |-> TRUE, fs |-> prep.fs, data |-> audio_data]
        ELSE [rec |-> acc.rec, text |-> PartialResult(acc.rec),
              accepted |-> FALSE, fs |-> prep.fs, data |-> audio_data]

\* SpeechToText.transcribe_microphone(duration) on the recognizer rec of the
\* engine: the buffers read from the stream are joined (captured) and given
\* to the decoder in one call, and the text is taken as above; when the
\* capture raises (ok false), the exception is logged and '' returned
transcribe_microphone(rec, captured, ok) ==
    LET acc == AcceptWaveform(rec, captured)
    IN  IF ~ok
        THEN [rec |-> rec, text |-> <<>>, accepted |-> FALSE, data |-> <<>>]
        ELSE IF acc.accepted
             THEN [rec |-> Result(acc.rec).rec, text |-> Result(acc.rec).text,
                   accepted |-> TRUE, data |-> captured]
             ELSE [rec |-> acc.rec, text |-> PartialResult(acc.rec),
                   accepted |-> FALSE, data |-> captured]

\* wf.readframes(n) at frame position pos (the number of frames read so far)
readframes(frames, pos, n) ==
    SubSeq(frames, pos + 1, IF pos + n < Len(frames) THEN pos + n ELSE Len(frames))

(***************************************************************************)
(* The texts the tools are run on: every text of at most MaxUnits units,   *)
(* a unit being a word followed by a separator; the shorter ones also      *)
(* after a leading blank; and the two texts of the documented scenarios.   *)
(***************************************************************************)
Words == {<<"c", "a", "t">>, <<"D", "o", "g">>, <<"t", "h", "e">>, <<"o", "x">>}

Separators == {<<" ">>, <<".", "\n">>, <<".">>}

Prefixes == {<<" ">>}

Units == {w \o s : w \in Words, s \in Separators}

RECURSIVE UnitTexts(_)
UnitTexts(m) ==
    IF m = 0 THEN {<<>>}
    ELSE LET shorter == UnitTexts(m - 1)
         IN  shorter \cup {t \o u : t \in shorter, u \in Units}

ScenarioSummary ==
    <<"T", "h", "e", " ", "c", "a", "t", " ", "s", "a", "t", ".", " ",
      "A", " ", "d", "o", "g", " ", "r", "a", "n", " ", "f", "a", "s", "t", " ",
      "t", "o", "d", "a", "y", ".", " ",
      "T", "h", "e", " ", "s", "k", "y", " ", "i", "s", " ", "b", "l", "u", "e",
      " ", "a", "n", "d", " ", "c", "l", "e", "a", "r", ".">>

ScenarioKeywords ==
    <<"d", "o", "g", " ", "d", "o", "g", " ", "c", "a", "t", " ", "c", "a", "t",
      " ", "c", "a", "t", " ", "b", "i", "r", "d">>

Texts ==
    UnitTexts(MaxUnits)
        \cup {p \o t : p \in Prefixes, t \in UnitTexts(MaxUnits - 1)}
        \cup {ScenarioSummary, ScenarioKeywords}

(***************************************************************************)
(* The text tools as a state machine: a text is given, then one tool runs  *)
(* on it (the text -> text route of main).                                 *)
(***************************************************************************)
TextIdle ==
    /\ text = <<>>
    /\ textOp = "none"
    /\ textArg = 0
    /\ summary = <<>>
    /\ kwords = <<>>

InitText ==
    /\ text \in Texts
    /\ textOp = "none"
    /\ textArg = 0
    /\ summary = <<>>
    /\ kwords = <<>>

\* print(summarize_text(args.input, max_sentences=args.max_sentences))
Summarize ==
    /\ textOp = "none"
    /\ \E n \in -1..MaxSentencesArg :
          /\ textArg' = n
          /\ summary' = summarize_text(text, n)
    /\ textOp' = "summarize"
    /\ UNCHANGED <<text, kwords>>
    /\ UNCHANGED <<normVars, sttVars>>
    /\ UNCHANGED appVars

\* keywords(text, k)
Keywords ==
    /\ textOp = "none"
    /\ \E k \in -1..MaxK :
          /\ textArg' = k
          /\ kwords' = keywords(text, k)
    /\ textOp' = "keywords"
    /\ UNCHANGED <<text, summary>>
    /\ UNCHANGED <<normVars, sttVars>>
    /\ UNCHANGED appVars

NextText == Summarize \/ Keywords

(***************************************************************************)
(* Transcription as a state machine.  On one host, with a recording (and   *)
(* maybe a silent one) on disk, two programs run side by side:             *)
(*  - the conversion CLI, one run of stt_audio_to_text, step by step (cli);*)
(*  - a SpeechToText engine, constructed once and then asked to transcribe *)
(*    files (stt).                                                         *)
(***************************************************************************)
RECURSIVE Sounds(_)
Sounds(m) ==
    IF m = 0 THEN {<<>>}
    ELSE LET shorter == Sounds(m - 1)
         IN  shorter \cup {Append(f, x) : f \in shorter, x \in {"w1", "sil"}}

Recordings ==
    {Wav(1, 16000, 2, f) : f \in Sounds(MaxFrames)}
        \cup {Wav(2, 44100, 2, f) : f \in Sounds(MaxFrames)}

\* a second file, b.wav, may lie next to the recording: a silent one
NameQuiet == <<"b", "wav">>

QuietRecordings == {Wav(1, 16000, 2, <<>>), Wav(1, 16000, 2, <<"sil">>)}

\* what bytes that are no 16000 Hz mono PCM may sound like to the decoder
OtherSounds == {<<>>, <<"w1">>}

NoEngine ==
    [state |-> "Uninitialized", rec |-> NewRecognizer, loads |-> 0,
     loadedFrom |-> "none", fed |-> 0]

\* made: the files the request has written
NoTranscript ==
    [called |-> FALSE, data |-> <<>>, accepted |-> FALSE, text |-> <<>>,
     made |-> {}]

\* made: the files the run has written; feeds: the chunks given to the
\* decoder, in order; finals: the number of FinalResult requests
CliIdle ==
    [pc |-> "idle", arg |-> <<>>, wav |-> <<>>, rec |-> NewRecognizer, pos |-> 0,
     loadedFrom |-> "none", fed |-> 0, out |-> <<>>, made |-> {}, feeds |-> <<>>,
     finals |-> 0]

SttIdle ==
    /\ modelDir = "absent"
    /\ stt = NoEngine
    /\ sttCalls = 0
    /\ sttLast = NoTranscript
    /\ cli = CliIdle

InitStt ==
    /\ modelDir \in {"absent", "partial", "present"}
    /\ stt = NoEngine
    /\ sttCalls = 0
    /\ sttLast = NoTranscript
    /\ cli = CliIdle
    /\ fs \in {[n \in {NameWav} |-> c] : c \in Recordings}
               \cup {[n \in {NameWav, NameQuiet} |-> IF n = NameWav THEN c ELSE q] :
                        c \in Recordings, q \in QuietRecordings}
    /\ haveFfmpeg \in BOOLEAN
    /\ normCount = 0
    /\ normLast = NoCall
    /\ normPrev = NoCall

\* main: --from audio --to text with an existing input file
CliStart ==
    /\ cli.pc = "idle"
    /\ \E p \in DOMAIN fs : cli' = [cli EXCEPT !.pc = "ensure_model", !.arg = p]
    /\ UNCHANGED <<modelDir, stt, sttCalls, sttLast>>
    /\ UNCHANGED <<textVars, normVars>>
    /\ UNCHANGED appVars

\* ensure_vosk_model(): nothing to do when the directory exists; otherwise
\* the archive is downloaded and unpacked, and a failure of either ends the
\* process through fail(); a failed unpack leaves a partial directory
CliEnsureModel ==
    /\ cli.pc = "ensure_model"
    /\ IF modelDir # "absent"
       THEN /\ cli' = [cli EXCEPT !.pc = "normalize"]
            /\ UNCHANGED modelDir
       ELSE \E got \in {"ok", "download_failed", "unpack_failed"} :
               /\ modelDir' = CASE got = "ok" -> "present"
                                [] got = "download_failed" -> "absent"
                                [] got = "unpack_failed" -> "partial"
               /\ cli' = [cli EXCEPT !.pc = IF got = "ok" THEN "normalize" ELSE "exit"]
    /\ UNCHANGED <<stt, sttCalls, sttLast>>
    /\ UNCHANGED <<textVars, normVars>>
    /\ UNCHANGED appVars

\* wav_path = ensure_wav_16k_mono(audio_path)
CliNormalize ==
    /\ cli.pc = "normalize"
    /\ \E junk \in BOOLEAN :
          LET r == ensure_wav_16k_mono(fs, haveFfmpeg, cli.arg, junk)
          IN  /\ fs' = r.fs
              /\ cli' = [cli EXCEPT !.wav = r.ret,
                                    !.made = written(fs, r.fs),
                                    !.pc = CASE r.outcome = "return" -> "load_model"
                                             [] r.outcome = "exit" -> "exit"
                                             [] r.outcome = "raise" -> "raised"]
    /\ UNCHANGED <<modelDir, stt, sttCalls, sttLast>>
    /\ UNCHANGED <<textVars, haveFfmpeg, normCount, normLast, normPrev>>
    /\ UNCHANGED appVars

\* model = Model(str(VOSK_DIR)); rec = KaldiRecognizer(model, 16000):
\* vosk raises when the directory holds no usable model
CliLoadModel ==
    /\ cli.pc = "load_model"
    /\ cli' = [cli EXCEPT !.loadedFrom = modelDir,
                          !.rec = NewRecognizer,
                          !.pc = IF load_model(modelDir) = "Ready" THEN "feed"
                                 ELSE "model_error"]
    /\ UNCHANGED <<modelDir, stt, sttCalls, sttLast>>
    /\ UNCHANGED <<textVars, normVars>>
    /\ UNCHANGED appVars

\* one turn of the loop: data = wf.readframes(4000); the loop ends on empty
\* data, and otherwise the chunk goes to rec.AcceptWaveform(data)
CliFeed ==
    /\ cli.pc = "feed"
    /\ LET data == readframes(fs[cli.wav].frames, cli.pos, ChunkFrames)
       IN  IF Len(data) = 0
           THEN cli' = [cli EXCEPT !.pc = "final"]
           ELSE cli' = [cli EXCEPT !.rec = AcceptWaveform(cli.rec, data).rec,
                                   !.pos = @ + Len(data),
                                   !.fed = @ + 1,
                                   !.feeds = Append(@, data)]
    /\ UNCHANGED <<modelDir, stt, sttCalls, sttLast>>
    /\ UNCHANGED <<textVars, normVars>>
    /\ UNCHANGED appVars

\* res = json.loads(rec.FinalResult()); return res.get("text", "").strip()
CliFinal ==
    /\ cli.pc = "final"
    /\ cli' = [cli EXCEPT !.rec = FinalResult(cli.rec).rec,
                          !.out = FinalResult(cli.rec).text,
                          !.finals = @ + 1,
                          !.pc = "done"]
    /\ UNCHANGED <<modelDir, stt, sttCalls, sttLast>>
    /\ UNCHANGED <<textVars, normVars>>
    /\ UNCHANGED appVars

\* SpeechToText(): __init__ calls _load_model once; a failure is re-raised
\* and leaves no engine to call
EngineConstruct ==
    /\ stt.state = "Uninitialized"
    /\ stt' = [stt EXCEPT !.state = load_model(modelDir),
                          !.loadedFrom = modelDir,
                          !.loads = @ + 1]
    /\ UNCHANGED <<modelDir, sttCalls, sttLast, cli>>
    /\ UNCHANGED <<textVars, normVars>>
    /\ UNCHANGED appVars

\* stt.transcribe_audio_file(p) on the constructed engine
EngineTranscribe ==
    /\ stt.state = "Ready"
    /\ sttCalls < MaxSttCalls
    /\ \E p \in DOMAIN fs, junk \in BOOLEAN, other \in OtherSounds :
          LET r == transcribe_audio_file(stt.rec, fs, haveFfmpeg, p, junk, other)
          IN  /\ fs' = r.fs
              /\ stt' = [stt EXCEPT !.rec = r.rec, !.fed = @ + 1]
              /\ sttLast' = [called |-> TRUE, data |-> r.data,
                             accepted |-> r.accepted, text |-> r.text,
                             made |-> written(fs, r.fs)]
    /\ sttCalls' = sttCalls + 1
    /\ UNCHANGED <<modelDir, cli>>
    /\ UNCHANGED <<textVars, haveFfmpeg, normCount, normLast, normPrev>>
    /\ UNCHANGED appVars

\* what the microphone may capture: a word, or a word and then silence
Captures == {<<"w1">>, <<"w1", "sil">>}

\* stt.transcribe_microphone(duration) on the constructed engine
EngineMicrophone ==
    /\ stt.state = "Ready"
    /\ sttCalls < MaxSttCalls
    /\ \E captured \in Captures, ok \in BOOLEAN :
          LET r == transcribe_microphone(stt.rec, captured, ok)
          IN  /\ stt' = [stt EXCEPT !.rec = r.rec, !.fed = IF ok THEN @ + 1 ELSE @]
              /\ sttLast' = [called |-> TRUE, data |-> r.data,
                             accepted |-> r.accepted, text |-> r.text,
                             made |-> {}]
    /\ sttCalls' = sttCalls + 1
    /\ UNCHANGED <<modelDir, cli>>
    /\ UNCHANGED <<textVars, normVars>>
    /\ UNCHANGED appVars

\* the upload of a request, as saved in the temp directory
NameUpload == <<"temp/audio_0_a", "wav">>

\* what is uploaded: speech as canonical audio, or as a stereo recording
Uploads == {Wav(1, 16000, 2, <<"w1">>), Wav(2, 44100, 2, <<"w1", "sil">>)}

NoRequest == [n |-> 0, pc |-> "none", made |-> {}, text |-> <<>>]

\* no upload request yet: the clock of the host (now), the temp directory
\* (disk) and the requests in their order of arrival
NoUploads == [os |-> "posix", now |-> 0, disk |-> <<>>, reqs |-> <<>>]

WebIdle == web = NoRequest /\ uploads = NoUploads

\* POST /api/transcribe with an uploaded file (use_microphone False), on
\* the audio_processor of the module: the upload is written to the temp
\* directory, transcribed through transcribe_audio_file, and unlinked.
\* (The name time, which web_interface.py uses without importing it, is
\* taken to be the time module.)
WebTranscribe ==
    /\ stt.state = "Ready"
    /\ sttCalls < MaxSttCalls
    /\ \E c \in Uploads, junk \in BOOLEAN, other \in OtherSounds :
          LET saved == fs_write(fs, NameUpload, c)
              r == transcribe_audio_file(stt.rec, saved, haveFfmpeg, NameUpload,
                                         junk, other)
          IN  /\ fs' = fs_remove(r.fs, NameUpload)
              /\ stt' = [stt EXCEPT !.rec = r.rec, !.fed = @ + 1]
              /\ sttLast' = [called |-> TRUE, data |-> r.data,
                             accepted |-> r.accepted, text |-> r.text,
                             made |-> written(saved, r.fs)]
              /\ web' = [n |-> web.n + 1, pc |-> "done",
                         made |-> written(fs, r.fs), text |-> r.text]
    /\ sttCalls' = sttCalls + 1
    /\ UNCHANGED <<modelDir, cli>>
    /\ UNCHANGED <<textVars, haveFfmpeg, normCount, normLast, normPrev>>
    /\ UNCHANGED <<ttsVars, bootVars, proc, player, uploads>>

NextStt ==
    \/ WebTranscribe
    \/ CliStart
    \/ CliEnsureModel
    \/ CliNormalize
    \/ CliLoadModel
    \/ CliFeed
    \/ CliFinal
    \/ EngineConstruct
    \/ EngineTranscribe
    \/ EngineMicrophone

(***************************************************************************)
(* The synthesis engine: pyttsx3.Engine, an external library, modelled by  *)
(* the behaviour of its interface.  Commands (say, save_to_file) are       *)
(* queued; runAndWait queues an endLoop command and runs the event loop,   *)
(* which takes the commands off the queue one by one until endLoop; a      *)
(* second runAndWait while a loop runs raises RuntimeError.  A queued      *)
(* utterance is spoken with the voice that was current when it was queued. *)
(* In audio_processor.py the name config stands for the Config instance of *)
(* config.py (config.ui.auto_speak is True).                               *)
(***************************************************************************)
\* engine.getProperty('voices'): the ids of the enumerated voices
Voices == <<"v0", "v1">>

\* an id that is not among them, and the absent voice_id (None)
UnknownVoice == "zz"

NoVoice == "none"

VoiceArgs == {Voices[i] : i \in DOMAIN Voices} \cup {UnknownVoice, NoVoice}

\* TextToSpeech._initialize_engine: the default voice is voices[0]
DefaultVoice == Voices[1]

initialize_engine ==
    [voice |-> DefaultVoice, queue |-> <<>>, owner |-> "none", out |-> <<>>]

\* engine.setProperty('voice', v): the driver looks the id up among its
\* voices and rejects one it does not know; the current voice then stays
setProperty_voice(e, v) ==
    IF \E i \in DOMAIN Voices : Voices[i] = v THEN [e EXCEPT !.voice = v] ELSE e

\* TextToSpeech.set_voice(voice_id): the error of a rejected id is logged
set_voice(e, v) == setProperty_voice(e, v)

\* (mutant) an utterance that is always queued with the default voice
say_default(e, req, dest) ==
    [e EXCEPT !.queue = Append(@, [kind |-> "say", req |-> req,
                                   voice |-> DefaultVoice, dest |-> dest])]

\* engine.say(text) (dest "speaker") and engine.save_to_file(text, path)
\* (dest "file") for the text of request req
say(e, req, dest) ==
    [e EXCEPT !.queue = Append(@, [kind |-> "say", req |-> req,
                                   voice |-> e.voice, dest |-> dest])]

\* engine.runAndWait() called by who ("caller" or "thread"): it raises when
\* a loop is running, and otherwise starts the loop, which who waits for
runAndWait(e, who) ==
    IF e.owner # "none" THEN [raised |-> TRUE, e |-> e]
    ELSE [raised |-> FALSE,
          e |-> [e EXCEPT !.owner = who,
                          !.queue = Append(@, [kind |-> "endLoop", req |-> 0,
                                               voice |-> "none", dest |-> "none"])]]

NoTtsCall ==
    [n |-> 0, kind |-> "none", voiceArg |-> NoVoice, blank |-> FALSE,
     blocking |-> TRUE, pc |-> "idle", error |-> FALSE]

\* the thread of a non-blocking speak: the request it serves, and the voice
\* the engine had when speak_text handed the text over (sel)
NoThread == [pc |-> "none", req |-> 0, sel |-> NoVoice]

TtsIdle ==
    /\ tts = initialize_engine
    /\ ttsCall = NoTtsCall
    /\ bg = NoThread

InitTts == TtsIdle

\* AudioProcessor.speak_text(text, voice_id, blocking): set_voice when a
\* voice_id is given, then TextToSpeech.speak: nothing for a blank text;
\* say and runAndWait when blocking, RuntimeError being logged; and else a
\* daemon thread that will do the same, of which no reference is kept
SpeakText ==
    /\ ttsCall.pc # "waiting"
    /\ ttsCall.n < MaxTtsCalls
    /\ \E v \in VoiceArgs, blank \in BOOLEAN, blocking \in BOOLEAN :
          LET n == ttsCall.n + 1
              e1 == IF v # NoVoice THEN set_voice(tts, v) ELSE tts
              r == runAndWait(say(e1, n, "speaker"), "caller")
              call == [n |-> n, kind |-> "speak", voiceArg |-> v, blank |-> blank,
                       blocking |-> blocking, pc |-> "returned", error |-> FALSE]
          IN  IF blank
              THEN /\ tts' = e1
                   /\ ttsCall' = call
                   /\ UNCHANGED bg
              ELSE IF blocking
                   THEN /\ tts' = r.e
                        /\ ttsCall' = [call EXCEPT !.pc = IF r.raised THEN "returned"
                                                         ELSE "waiting",
                                                   !.error = r.raised]
                        /\ UNCHANGED bg
                   ELSE /\ bg.pc \in {"none", "done", "dead"}
                        /\ bg' = [pc |-> "start", req |-> n, sel |-> e1.voice]
                        /\ tts' = e1
                        /\ ttsCall' = call
    /\ UNCHANGED <<textVars, normVars, sttVars, bootVars, proc, player, web, uploads>>

\* AudioProcessor.save_speech(text, output_path, voice_id): set_voice when
\* a voice_id is given, then TextToSpeech.save_to_file: save_to_file and
\* runAndWait, an exception being logged
SaveSpeech ==
    /\ ttsCall.pc # "waiting"
    /\ ttsCall.n < MaxTtsCalls
    /\ \E v \in VoiceArgs :
          LET n == ttsCall.n + 1
              e1 == IF v # NoVoice THEN set_voice(tts, v) ELSE tts
              r == runAndWait(say(e1, n, "file"), "caller")
          IN  /\ tts' = r.e
              /\ ttsCall' = [n |-> n, kind |-> "save", voiceArg |-> v,
                             blank |-> FALSE, blocking |-> TRUE,
                             pc |-> IF r.raised THEN "returned" ELSE "waiting",
                             error |-> r.raised]
    /\ UNCHANGED bg
    /\ UNCHANGED <<textVars, normVars, sttVars, bootVars, proc, player, web, uploads>>

\* the event loop takes one command off the queue: an utterance is
\* produced; endLoop ends the loop, and the runAndWait of its owner returns
EngineStep ==
    /\ tts.owner # "none"
    /\ tts.queue # <<>>
    /\ LET c == Head(tts.queue)
       IN  IF c.kind = "say"
           THEN /\ tts' = [tts EXCEPT !.queue = Tail(@),
                                      !.out = Append(@, [req |-> c.req, voice |-> c.voice,
                                                         dest |-> c.dest])]
                /\ UNCHANGED <<ttsCall, bg>>
           ELSE /\ tts' = [tts EXCEPT !.queue = Tail(@), !.owner = "none"]
                /\ IF tts.owner = "caller"
                   THEN /\ ttsCall' = [ttsCall EXCEPT !.pc = "returned"]
                        /\ UNCHANGED bg
                   ELSE /\ bg' = [bg EXCEPT !.pc = "done"]
                        /\ UNCHANGED ttsCall
    /\ UNCHANGED <<textVars, normVars, sttVars, bootVars, proc, player, web, uploads>>

\* speak_async in the thread: self.engine.say(text)
ThreadSay ==
    /\ bg.pc = "start"
    /\ tts' = say(tts, bg.req, "speaker")
    /\ bg' = [bg EXCEPT !.pc = "said"]
    /\ UNCHANGED ttsCall
    /\ UNCHANGED <<textVars, normVars, sttVars, bootVars, proc, player, web, uploads>>

\* speak_async in the thread: self.engine.runAndWait(); nothing catches the
\* RuntimeError there, which ends the thread
ThreadRunAndWait ==
    /\ bg.pc = "said"
    /\ LET r == runAndWait(tts, "thread")
       IN  /\ tts' = r.e
           /\ bg' = [bg EXCEPT !.pc = IF r.raised THEN "dead" ELSE "looping"]
    /\ UNCHANGED ttsCall
    /\ UNCHANGED <<textVars, normVars, sttVars, bootVars, proc, player, web, uploads>>

NextTts ==
    \/ SpeakText
    \/ SaveSpeech
    \/ EngineStep
    \/ ThreadSay
    \/ ThreadRunAndWait

(***************************************************************************)
(* Model bootstrap.  The models directory holds the model directory        *)
(* (modelDir) and the archives downloaded into it (zips).  What the        *)
(* network and the archive do (got) is not decided by the program: the     *)
(* download succeeds and the archive unpacks ("ok"), the download fails,   *)
(* or the unpack fails part of the way.  In main.py and audio_processor.py *)
(* the name config stands for the Config instance of config.py.            *)
(***************************************************************************)
ZipCli == "vosk-small-en.zip"

ZipApp == "vosk-model-small-en-us-0.15.zip"

Got == {"ok", "download_failed", "unpack_failed"}

\* (mutant) the bootstrap without its existence test
ensure_vosk_model_unconditional(dir, zs, got) ==
    CASE got = "ok" ->
           [outcome |-> "return", dir |-> "present", zips |-> zs \cup {ZipCli},
            attempts |-> 1, failed |-> FALSE]
      [] got = "download_failed" ->
           [outcome |-> "exit", dir |-> dir, zips |-> zs,
            attempts |-> 1, failed |-> TRUE]
      [] got = "unpack_failed" ->
           [outcome |-> "exit", dir |-> "partial", zips |-> zs \cup {ZipCli},
            attempts |-> 1, failed |-> TRUE]

\* ensure_vosk_model(): return at once when VOSK_DIR exists; otherwise one
\* urlretrieve and one extractall, and fail() when either raises; the
\* archive is left in place
ensure_vosk_model(dir, zs, got) ==
    IF dir # "absent"
    THEN [outcome |-> "return", dir |-> dir, zips |-> zs, attempts |-> 0,
          failed |-> FALSE]
    ELSE ensure_vosk_model_unconditional(dir, zs, got)

\* download_vosk_model(): True at once when the model path exists;
\* otherwise one urlretrieve and one extractall, the archive is unlinked
\* and True returned; False when anything raises
download_vosk_model(dir, zs, got) ==
    IF dir # "absent"
    THEN [outcome |-> "true", dir |-> dir, zips |-> zs, attempts |-> 0,
          failed |-> FALSE]
    ELSE CASE got = "ok" ->
                [outcome |-> "true", dir |-> "present", zips |-> zs \ {ZipApp},
                 attempts |-> 1, failed |-> FALSE]
           [] got = "download_failed" ->
                [outcome |-> "false", dir |-> "absent", zips |-> zs,
                 attempts |-> 1, failed |-> TRUE]
           [] got = "unpack_failed" ->
                [outcome |-> "false", dir |-> "partial", zips |-> zs \cup {ZipApp},
                 attempts |-> 1, failed |-> TRUE]

\* the record of a bootstrap call r made by impl on the directory as it is
BootRecord(impl, r, n) ==
    [impl |-> impl, n |-> n, before |-> [dir |-> modelDir, zips |-> zips],
     after |-> [dir |-> r.dir, zips |-> r.zips], outcome |-> r.outcome,
     attempts |-> r.attempts, failed |-> r.failed]

NoBoot ==
    [impl |-> "none", n |-> 0, before |-> [dir |-> "absent", zips |-> {}],
     after |-> [dir |-> "absent", zips |-> {}], outcome |-> "none",
     attempts |-> 0, failed |-> FALSE]

\* a program that has not been started; boots counts its bootstrap calls,
\* fetched tells whether one of them has downloaded the model, loads
\* counts the model loads of the current run
NoRun ==
    [pc |-> "off", runs |-> 0, boots |-> 0, fetched |-> FALSE, loads |-> 0,
     bootRan |-> FALSE, bootFailed |-> FALSE]

BootIdle ==
    /\ zips = {}
    /\ bootLast = NoBoot
    /\ crun = NoRun
    /\ app = NoRun

InitBoot ==
    /\ modelDir \in {"absent", "partial", "present"}
    /\ zips = {}
    /\ bootLast = NoBoot
    /\ crun = NoRun
    /\ app = NoRun
    /\ stt = NoEngine
    /\ sttCalls = 0
    /\ sttLast = NoTranscript
    /\ cli = CliIdle

\* python any2any_ai.py --from audio --to text: a new process
CliRunStart ==
    /\ crun.pc \in {"off", "exit", "loaded", "model_error"}
    /\ crun.runs < MaxRuns
    /\ crun' = [crun EXCEPT !.pc = "stt", !.runs = @ + 1, !.loads = 0,
                            !.bootRan = FALSE, !.bootFailed = FALSE]
    /\ UNCHANGED <<modelDir, zips, bootLast, app>>
    /\ UNCHANGED <<stt, sttCalls, sttLast, cli>>
    /\ UNCHANGED <<textVars, normVars, ttsVars, proc, player, web, uploads>>

\* stt_audio_to_text: ensure_vosk_model() comes first
CliRunEnsure ==
    /\ crun.pc = "stt"
    /\ \E got \in Got :
          LET r == ensure_vosk_model(modelDir, zips, got)
          IN  /\ modelDir' = r.dir
              /\ zips' = r.zips
              /\ bootLast' = BootRecord("ensure_vosk_model", r, crun.boots + 1)
              /\ crun' = [crun EXCEPT !.pc = IF r.outcome = "exit" THEN "exit"
                                               ELSE "ensured",
                                      !.boots = @ + 1,
                                      !.fetched = @ \/ (r.attempts > 0 /\ ~r.failed),
                                      !.bootRan = TRUE,
                                      !.bootFailed = r.failed]
    /\ UNCHANGED app
    /\ UNCHANGED <<stt, sttCalls, sttLast, cli>>
    /\ UNCHANGED <<textVars, normVars, ttsVars, proc, player, web, uploads>>

\* stt_audio_to_text: model = Model(str(VOSK_DIR))
CliRunLoad ==
    /\ crun.pc = "ensured"
    /\ crun' = [crun EXCEPT !.pc = IF load_model(modelDir) = "Ready" THEN "loaded"
                                     ELSE "model_error",
                            !.loads = @ + 1]
    /\ UNCHANGED <<modelDir, zips, bootLast, app>>
    /\ UNCHANGED <<stt, sttCalls, sttLast, cli>>
    /\ UNCHANGED <<textVars, normVars, ttsVars, proc, player, web, uploads>>

\* python main.py: a new process
MainStart ==
    /\ app.pc \in {"off", "import_error", "exit", "running", "crashed"}
    /\ app.runs < MaxRuns
    /\ app' = [app EXCEPT !.pc = "import", !.runs = @ + 1, !.loads = 0,
                          !.bootRan = FALSE, !.bootFailed = FALSE]
    /\ UNCHANGED <<modelDir, zips, bootLast, crun>>
    /\ UNCHANGED <<stt, sttCalls, sttLast, cli>>
    /\ UNCHANGED <<textVars, normVars, ttsVars, proc, player, web, uploads>>

\* main.py line 15, from web_interface import run_server: the module body
\* of web_interface runs audio_processor = AudioProcessor(), which
\* constructs SpeechToText(), which loads the model; an exception there
\* ends the process
MainImport ==
    /\ app.pc = "import"
    /\ app' = [app EXCEPT !.pc = IF load_model(modelDir) = "Ready" THEN "main"
                                   ELSE "import_error",
                          !.loads = @ + 1]
    /\ UNCHANGED <<modelDir, zips, bootLast, crun>>
    /\ UNCHANGED <<stt, sttCalls, sttLast, cli>>
    /\ UNCHANGED <<textVars, normVars, ttsVars, proc, player, web, uploads>>

\* main: setup_environment(): a False from download_vosk_model() is
\* answered by a warning, and setup goes on to its end
MainSetup ==
    /\ app.pc = "main"
    /\ \E got \in Got :
          LET r == download_vosk_model(modelDir, zips, got)
          IN  /\ modelDir' = r.dir
              /\ zips' = r.zips
              /\ bootLast' = BootRecord("download_vosk_model", r, app.boots + 1)
              /\ app' = [app EXCEPT !.pc = "setup_done",
                                    !.boots = @ + 1,
                                    !.fetched = @ \/ (r.attempts > 0 /\ ~r.failed),
                                    !.bootRan = TRUE,
                                    !.bootFailed = r.failed]
    /\ UNCHANGED crun
    /\ UNCHANGED <<stt, sttCalls, sttLast, cli>>
    /\ UNCHANGED <<textVars, normVars, ttsVars, proc, player, web, uploads>>

\* main after setup_environment(): return with --setup; run_cli_mode(),
\* which constructs another AudioProcessor; or run_server()
MainRun ==
    /\ app.pc = "setup_done"
    /\ \E mode \in {"setup", "cli", "web"} :
          app' = CASE mode = "setup" -> [app EXCEPT !.pc = "exit"]
                   [] mode = "cli" ->
                        [app EXCEPT !.pc = IF load_model(modelDir) = "Ready"
                                           THEN "running" ELSE "crashed",
                                    !.loads = @ + 1]
                   [] mode = "web" -> [app EXCEPT !.pc = "running"]
    /\ UNCHANGED <<modelDir, zips, bootLast, crun>>
    /\ UNCHANGED <<stt, sttCalls, sttLast, cli>>
    /\ UNCHANGED <<textVars, normVars, ttsVars, proc, player, web, uploads>>

\* the host: the model directory is removed by something other than the
\* two programs (a cleanup, a reinstall)
ModelDirRemoved ==
    /\ modelDir # "absent"
    /\ modelDir' = "absent"
    /\ UNCHANGED <<zips, bootLast, crun, app>>
    /\ UNCHANGED <<stt, sttCalls, sttLast, cli>>
    /\ UNCHANGED <<textVars, normVars, ttsVars, proc, player, web, uploads>>

NextBoot ==
    \/ CliRunStart
    \/ CliRunEnsure
    \/ CliRunLoad
    \/ MainStart
    \/ MainImport
    \/ MainSetup
    \/ MainRun
    \/ ModelDirRemoved

(***************************************************************************)
(* The conversion CLI as a whole: main() of any2any_ai.py on a command     *)
(* line and a host.  The exit is a code and what went to stderr: "none",   *)
(* "error" (the [ERROR] line of fail), "usage" (the usage message of       *)
(* argparse) or "traceback" (an exception nothing catches ends the         *)
(* interpreter with a traceback and exit code 1).                          *)
(***************************************************************************)
Modalities == {"text", "audio"}

Tasks == {"echo", "summarize", "keywords"}

\* (mutant) fail() that reports nothing and exits with 0
fail_quietly(msg) == [code |-> 0, stderr |-> "none", why |-> msg]

\* fail(msg): print to stderr, sys.exit(1)
fail(msg) == [code |-> 1, stderr |-> "error", why |-> msg]

\* an exception that reaches the top of the interpreter
uncaught(exc) == [code |-> 1, stderr |-> "traceback", why |-> exc]

\* the return of main
exit_normally == [code |-> 0, stderr |-> "none", why |-> "done"]

\* ap.parse_args(): a value outside the choices of --from, --to or --task,
\* or a missing required option, ends the process with code 2 and the
\* usage message
parse_args(a) ==
    IF a.src \in Modalities /\ a.dst \in Modalities /\ a.task \in Tasks /\ a.hasInput
    THEN [ok |-> TRUE, exit |-> exit_normally]
    ELSE [ok |-> FALSE, exit |-> [code |-> 2, stderr |-> "usage", why |-> "argparse"]]

\* tts_text_to_wav as far as the exit goes
tts_text_to_wav(a) ==
    IF ~a.pyttsx3 THEN fail("Missing dependency: pyttsx3")
    ELSE IF ~a.ttsOk THEN uncaught("pyttsx3.init")
         ELSE exit_normally

\* stt_audio_to_text as far as the exit goes: bootstrap, import of vosk,
\* normalization, model load, and then the decoding, which does not fail
stt_audio_to_text(a) ==
    LET b == ensure_vosk_model(a.dir, {}, a.got)
        w == ensure_wav_16k_mono([n \in {NameWav} |-> a.audio], a.ffmpeg, NameWav, FALSE)
    IN  IF b.outcome = "exit" THEN fail("Could not download/extract Vosk model")
        ELSE IF ~a.vosk THEN fail("Missing dependency: vosk")
        ELSE IF w.outcome = "exit" THEN fail("ffmpeg is required")
        ELSE IF w.outcome = "raise" THEN uncaught("CalledProcessError")
        ELSE IF load_model(b.dir) # "Ready" THEN uncaught("vosk.Model")
        ELSE exit_normally

\* main()
main(a) ==
    IF ~parse_args(a).ok THEN parse_args(a).exit
    ELSE IF a.src = "text" /\ a.dst = "audio"
         THEN IF ~a.output THEN fail("Provide --output for audio")
              ELSE tts_text_to_wav(a)
         ELSE IF a.src = "audio" /\ a.dst = "text"
              THEN IF ~a.exists THEN fail("Audio not found")
                   ELSE stt_audio_to_text(a)
              ELSE IF a.src = "text" /\ a.dst = "text"
                   THEN exit_normally
                   ELSE fail("Route not implemented yet.")

\* the command lines and hosts: --from, --to and --task also with a value
\* outside their choices
CommandLines ==
    [src : Modalities \cup {"video"}, dst : Modalities \cup {"video"},
     task : Tasks \cup {"translate"}, hasInput : BOOLEAN, output : BOOLEAN,
     exists : BOOLEAN,
     audio : {Wav(1, 16000, 2, SoundOne), Wav(2, 44100, 2, SoundOne), Garbage},
     pyttsx3 : BOOLEAN, ttsOk : BOOLEAN, vosk : BOOLEAN, ffmpeg : BOOLEAN,
     dir : {"absent", "partial", "present"}, got : Got]

NotRun == [code |-> -1, stderr |-> "none", why |-> "not run"]

ProcIdle == proc = [pc |-> "off", args |-> <<>>, exit |-> NotRun]

InitProc == proc \in {[pc |-> "ready", args |-> a, exit |-> NotRun] : a \in CommandLines}

\* python any2any_ai.py with the command line, from start to exit
RunMain ==
    /\ proc.pc = "ready"
    /\ proc' = [proc EXCEPT !.pc = "done", !.exit = main(proc.args)]
    /\ UNCHANGED <<textVars, normVars, sttVars, ttsVars, bootVars, player, web, uploads>>

NextProc == RunMain

(***************************************************************************)
(* Playback.  A host is its os.name, what winsound.PlaySound does there,   *)
(* and what running each candidate player does: "missing" (no such         *)
(* command: FileNotFoundError), "failed" (non-zero exit:                   *)
(* CalledProcessError), "ok" (it plays the file) or "denied" (another      *)
(* OSError, such as PermissionError).                                      *)
(***************************************************************************)
Candidates == <<"afplay", "aplay", "paplay", "ffplay">>

PlayerOutcomes == {"missing", "failed", "ok", "denied"}

\* (mutant) the loop over the candidates without its break
RECURSIVE try_all_players(_, _, _)
try_all_players(h, i, acc) ==
    IF i > Len(Candidates) THEN acc
    ELSE LET c == Candidates[i]
             tried == Append(acc.tried, c)
         IN  CASE h.cmd[c] = "ok" ->
                    try_all_players(h, i + 1, [acc EXCEPT !.tried = tried,
                                                          !.played = Append(@, c)])
               [] h.cmd[c] \in {"missing", "failed"} ->
                    try_all_players(h, i + 1, [acc EXCEPT !.tried = tried])
               [] h.cmd[c] = "denied" ->
                    [acc EXCEPT !.tried = tried, !.raised = TRUE]

\* the loop of _play_blocking from candidate i on: subprocess.run(cmd,
\* check=True); break after the first run that succeeds; continue on
\* CalledProcessError and FileNotFoundError; any other exception leaves
\* the loop and the function
RECURSIVE try_players(_, _, _)
try_players(h, i, acc) ==
    IF i > Len(Candidates) THEN acc
    ELSE LET c == Candidates[i]
             tried == Append(acc.tried, c)
         IN  CASE h.cmd[c] = "ok" ->
                    [acc EXCEPT !.tried = tried, !.played = Append(@, c)]
               [] h.cmd[c] \in {"missing", "failed"} ->
                    try_players(h, i + 1, [acc EXCEPT !.tried = tried])
               [] h.cmd[c] = "denied" ->
                    [acc EXCEPT !.tried = tried, !.raised = TRUE]

\* AudioPlayer._play_blocking(audio_path): winsound on Windows, the
\* candidates elsewhere
play_blocking(h) ==
    IF h.os = "nt"
    THEN IF h.winsound = "ok"
         THEN [tried |-> <<>>, played |-> <<"winsound">>, raised |-> FALSE]
         ELSE [tried |-> <<>>, played |-> <<>>, raised |-> TRUE]
    ELSE try_players(h, 1, [tried |-> <<>>, played |-> <<>>, raised |-> FALSE])

Hosts ==
    [os : {"posix", "nt"}, winsound : {"ok", "error"},
     cmd : [{Candidates[i] : i \in DOMAIN Candidates} -> PlayerOutcomes]]

NoPlay == [tried |-> <<>>, played |-> <<>>, raised |-> FALSE]

\* AudioPlayer.__init__: is_playing False, current_thread None (0), and no
\* thread started yet; plays counts the calls of play_audio_file
NewPlayer(pc, h) ==
    [pc |-> pc, host |-> h, blocking |-> TRUE, returned |-> FALSE,
     logged |-> FALSE, result |-> NoPlay, is_playing |-> FALSE,
     threads |-> <<>>, current_thread |-> 0, plays |-> 0]

PlayerIdle == player = NewPlayer("off", <<>>)

InitPlayer == player \in {NewPlayer("ready", h) : h \in Hosts}

\* AudioPlayer.play_audio_file(audio_path, blocking): _play_blocking, an
\* exception of which is logged; or _play_non_blocking, which starts a
\* daemon thread, keeps it as current_thread and returns
PlayAudioFile ==
    /\ player.pc # "off"
    /\ player.plays < MaxPlays
    /\ \E blocking \in BOOLEAN :
          IF blocking
          THEN LET r == play_blocking(player.host)
               IN  player' = [player EXCEPT !.pc = "done", !.blocking = TRUE,
                                            !.returned = TRUE, !.logged = r.raised,
                                            !.result = r, !.plays = @ + 1]
          ELSE player' = [player EXCEPT !.pc = "thread", !.blocking = FALSE,
                                        !.returned = TRUE, !.plays = @ + 1,
                                        !.threads = Append(@, "started"),
                                        !.current_thread = Len(player.threads) + 1]
    /\ UNCHANGED <<textVars, normVars, sttVars, ttsVars, bootVars, proc, web, uploads>>

\* play_async in a thread: self.is_playing = True
ThreadBegin ==
    /\ \E i \in DOMAIN player.threads :
          /\ player.threads[i] = "started"
          /\ player' = [player EXCEPT !.threads[i] = "playing", !.is_playing = TRUE]
    /\ UNCHANGED <<textVars, normVars, sttVars, ttsVars, bootVars, proc, web, uploads>>

\* play_async in a thread: self._play_blocking(audio_path) comes to its
\* end, and then self.is_playing = False; an exception of _play_blocking
\* ends the thread before that assignment
ThreadPlay ==
    /\ \E i \in DOMAIN player.threads :
          /\ player.threads[i] = "playing"
          /\ LET r == play_blocking(player.host)
             IN  player' = [player EXCEPT !.pc = "done", !.result = r,
                                          !.threads[i] = IF r.raised THEN "died"
                                                         ELSE "ended",
                                          !.is_playing = IF r.raised THEN @ ELSE FALSE]
    /\ UNCHANGED <<textVars, normVars, sttVars, ttsVars, bootVars, proc, web, uploads>>

\* AudioPlayer.stop_playback(): is_playing is set to False when the
\* current thread is alive; the thread itself is left running
StopPlayback ==
    /\ player.pc # "off"
    /\ player.current_thread # 0
    /\ player.threads[player.current_thread] \in {"started", "playing"}
    /\ player.is_playing
    /\ player' = [player EXCEPT !.is_playing = FALSE]
    /\ UNCHANGED <<textVars, normVars, sttVars, ttsVars, bootVars, proc, web, uploads>>

NextPlayer ==
    \/ PlayAudioFile
    \/ ThreadBegin
    \/ ThreadPlay
    \/ StopPlayback

(***************************************************************************)
(* Upload requests of the web interface.  The handlers of /api/transcribe  *)
(* and /api/chat are coroutines of one event loop: a handler runs without  *)
(* interruption except at an await, and the one await between the open of  *)
(* the temp file and the write is that of the read of the upload, which    *)
(* may or may not suspend the handler (Starlette reads a spooled upload    *)
(* in a thread pool).  The temp directory (disk) maps the paths that exist *)
(* to their bytes.  On a POSIX host a file that is unlinked while another  *)
(* handle is open on it lives on for that handle only (detached); on       *)
(* Windows (os "nt") the unlink raises PermissionError.  The name time,    *)
(* which web_interface.py uses without importing it, is taken to be the    *)
(* time module, and config to be the Config instance.                      *)
(***************************************************************************)
\* the prefixes of the two handlers: audio_ (transcribe), upload_ (chat)
Kinds == {"audio", "upload"}

\* the file names the clients give
FileNames == {"a.wav", "b.wav"}

\* the bytes the clients upload
UploadBytes == {<<"x">>, <<"y", "y">>}

\* config.system.temp_dir / f"audio_{int(time.time())}_{audio.filename}"
temp_path(kind, sec, name) == <<kind, sec, name>>

\* what a file holding old holds after bytes are written at its start
overwrite(old, bytes) == bytes \o SubSeq(old, Len(bytes) + 1, Len(old))

NotProcessed == [found |-> FALSE, bytes |-> <<>>]

\* the handler of request i after the read of the upload: the bytes are
\* written and the file is closed; the pipeline is given the path and
\* reads what is there (processed), a missing file ending in an empty
\* result; and the file, if it exists, is unlinked
finish_upload(u, i) ==
    LET q == u.reqs[i]
        wrote == IF q.detached THEN u.disk
                 ELSE fs_write(u.disk, q.path, overwrite(u.disk[q.path], q.bytes))
        processed == IF q.path \in DOMAIN wrote
                     THEN [found |-> TRUE, bytes |-> wrote[q.path]]
                     ELSE NotProcessed
        open_elsewhere ==
            \E j \in DOMAIN u.reqs :
               j # i /\ u.reqs[j].pc = "reading" /\ u.reqs[j].path = q.path
                     /\ ~u.reqs[j].detached
    IN  IF q.path \notin DOMAIN wrote
        THEN [u EXCEPT !.reqs[i].pc = "done", !.reqs[i].processed = processed]
        ELSE IF u.os = "nt" /\ open_elsewhere
             THEN [u EXCEPT !.disk = wrote, !.reqs[i].pc = "error",
                            !.reqs[i].processed = processed]
             ELSE [u EXCEPT !.disk = fs_remove(wrote, q.path),
                            !.reqs = [j \in DOMAIN u.reqs |->
                                        IF j = i
                                        THEN [q EXCEPT !.pc = "done",
                                                       !.processed = processed]
                                        ELSE IF u.reqs[j].pc = "reading"
                                                /\ u.reqs[j].path = q.path
                                             THEN [u.reqs[j] EXCEPT !.detached = TRUE]
                                             ELSE u.reqs[j]]]

InitUploads == uploads \in {[NoUploads EXCEPT !.os = o] : o \in {"posix", "nt"}}

\* a request with an upload arrives: the handler names the temp file after
\* the second and the file name, opens it for writing, which creates or
\* truncates it, and awaits the read of the upload; when that does not
\* suspend, the handler goes on to its end at once
UploadArrives ==
    /\ Len(uploads.reqs) < MaxRequests
    /\ \E kind \in Kinds, name \in FileNames, bytes \in UploadBytes,
          suspended \in BOOLEAN :
          LET path == temp_path(kind, uploads.now, name)
              q == [kind |-> kind, path |-> path, bytes |-> bytes, pc |-> "reading",
                    detached |-> FALSE, processed |-> NotProcessed]
              u == [uploads EXCEPT !.disk = fs_write(uploads.disk, path, <<>>),
                                   !.reqs = Append(@, q)]
          IN  uploads' = IF suspended THEN u ELSE finish_upload(u, Len(u.reqs))
    /\ UNCHANGED <<textVars, normVars, sttVars, ttsVars, bootVars, proc, player, web>>

\* the read of the upload is over, and the handler goes on to its end
UploadResumes ==
    /\ \E i \in DOMAIN uploads.reqs :
          /\ uploads.reqs[i].pc = "reading"
          /\ uploads' = finish_upload(uploads, i)
    /\ UNCHANGED <<textVars, normVars, sttVars, ttsVars, bootVars, proc, player, web>>

\* int(time.time()) moves on to the next second
Tick ==
    /\ uploads.now < MaxSeconds
    /\ uploads' = [uploads EXCEPT !.now = @ + 1]
    /\ UNCHANGED <<textVars, normVars, sttVars, ttsVars, bootVars, proc, player, web>>

NextUploads ==
    \/ UploadArrives
    \/ UploadResumes
    \/ Tick

AppIdle == TtsIdle /\ BootIdle /\ ProcIdle /\ PlayerIdle /\ WebIdle

(***************************************************************************)
(* The specifications: one per component, the others at rest.              *)
(***************************************************************************)
vars == <<textVars, normVars, sttVars, appVars>>

InitTextSpec == InitText /\ NormIdle /\ SttIdle /\ AppIdle

InitNormSpec == InitNorm /\ TextIdle /\ SttIdle /\ AppIdle

InitSttSpec == InitStt /\ TextIdle /\ AppIdle

SpecText == InitTextSpec /\ [][NextText]_vars

SpecNorm == InitNormSpec /\ [][NextNorm]_vars

SpecStt == InitSttSpec /\ [][NextStt]_vars

InitTtsSpec ==
    InitTts /\ TextIdle /\ NormIdle /\ SttIdle /\ BootIdle /\ ProcIdle /\ PlayerIdle /\ WebIdle

InitBootSpec == InitBoot /\ TextIdle /\ NormIdle /\ TtsIdle /\ ProcIdle /\ PlayerIdle /\ WebIdle

InitProcSpec ==
    InitProc /\ TextIdle /\ NormIdle /\ SttIdle /\ TtsIdle /\ BootIdle /\ PlayerIdle /\ WebIdle

InitPlayerSpec ==
    InitPlayer /\ TextIdle /\ NormIdle /\ SttIdle /\ TtsIdle /\ BootIdle /\ ProcIdle /\ WebIdle

SpecPlayer == InitPlayerSpec /\ [][NextPlayer]_vars

InitUploadsSpec ==
    /\ InitUploads /\ web = NoRequest
    /\ TextIdle /\ NormIdle /\ SttIdle /\ TtsIdle /\ BootIdle /\ ProcIdle /\ PlayerIdle

SpecUploads == InitUploadsSpec /\ [][NextUploads]_vars

SpecProc == InitProcSpec /\ [][NextProc]_vars

SpecBoot == InitBootSpec /\ [][NextBoot]_vars

SpecTts == InitTtsSpec /\ [][NextTts]_vars

(***************************************************************************)
(* Properties of the text tools.  The definitions below state what the     *)
(* result should be without using the sort or the loops of the code.       *)
(***************************************************************************)
\* t is s with whitespace, and only whitespace, taken off both ends
IsStripOf(s, t) ==
    /\ s = <<>> \/ (s[1] \notin Whitespace /\ s[Len(s)] \notin Whitespace)
    /\ \E a \in 0..Len(t) :
          /\ a + Len(s) <= Len(t)
          /\ \A i \in 1..Len(t) :
                IF i > a /\ i <= a + Len(s) THEN t[i] = s[i - a]
                ELSE t[i] \in Whitespace

\* the sentences a returned summary consists of (an empty summary has none)
OutSentences(s) == IF s = <<>> THEN <<>> ELSE re_split(s)

\* a is b with some items left out: the items of a are found in b at
\* increasing positions
RECURSIVE IsSubsequence(_, _)
IsSubsequence(a, b) ==
    IF a = <<>> THEN TRUE
    ELSE IF b = <<>> THEN FALSE
         ELSE IF Head(a) = Head(b) THEN IsSubsequence(Tail(a), Tail(b))
              ELSE IsSubsequence(a, Tail(b))

\* the filtered lowercase tokens of the text
FilteredTokens(t) ==
    SelectSeq(re_findall(lower(t)), LAMBDA w : w \notin stop /\ Len(w) > 2)

\* the number of occurrences of w among the tokens toks, and the position
\* of the first one
Count(toks, w) == Cardinality({i \in 1..Len(toks) : toks[i] = w})

First(toks, w) == CHOOSE i \in 1..Len(toks) : toks[i] = w /\ \A j \in 1..(i - 1) : toks[j] # w

Occurrences(t, w) == Count(FilteredTokens(t), w)

\* the words of the table, each at its place in the order "more frequent
\* first, and among equally frequent words the one seen first"
ExpectedOrder(t) ==
    LET toks == FilteredTokens(t)
        keys == {toks[i] : i \in 1..Len(toks)}
        occ == [w \in keys |-> Count(toks, w)]
        fst == [w \in keys |-> First(toks, w)]
        Before(v, w) == occ[v] > occ[w] \/ (occ[v] = occ[w] /\ fst[v] < fst[w])
        place == [w \in keys |-> 1 + Cardinality({v \in keys : Before(v, w)})]
    IN  [r \in 1..Cardinality(keys) |-> CHOOSE w \in keys : place[w] = r]

\* the sum of the document frequencies of the tokens of a sentence, and
\* the number of its tokens
TokenSum(t, sent) ==
    LET toks == re_findall(lower(sent))
        all == FilteredTokens(t)
        f[m \in 0..Len(toks)] ==
            IF m = 0 THEN 0
            ELSE f[m - 1] + (IF toks[m] \in stop \/ Len(toks[m]) <= 2 THEN 0
                             ELSE Count(all, toks[m]))
    IN  f[Len(toks)]

TokenCount(sent) == Len(re_findall(lower(sent)))

\* sum / count of sentence i is above that of sentence j (a sentence
\* without tokens scores 0)
RatioAbove(t, si, sj) ==
    IF TokenCount(si) = 0 THEN FALSE
    ELSE IF TokenCount(sj) = 0 THEN TokenSum(t, si) > 0
         ELSE TokenSum(t, si) * TokenCount(sj) > TokenSum(t, sj) * TokenCount(si)

\* sum / (count + 1e-9) of sentence i is above that of sentence j: the
\* ratios decide, and between equal ratios the larger sum is above
EpsilonAbove(t, si, sj) ==
    \/ RatioAbove(t, si, sj)
    \/ /\ ~RatioAbove(t, sj, si)
       /\ TokenSum(t, si) > TokenSum(t, sj)

\* the summary is made of the sentences of the index set K, in document order
IsJoinOf(s, sents, K) ==
    LET idx == sorted_asc(K)
    IN  s = JoinSpace([j \in 1..Len(idx) |-> sents[idx[j]]])

Summarized == textOp = "summarize"

Extracted == textOp = "keywords"

\* C1 (as stated): when splitting the text yields at most max_sentences
\* sentences, summarize_text returns the input text character for character.
C1_ReturnsInputUnchanged ==
    (Summarized /\ Len(re_split(text)) <= textArg) => summary = text

\* C1 (amended): when splitting the text yields at most max_sentences
\* sentences, summarize_text returns the input text with its leading and
\* trailing whitespace removed and nothing else changed.
C1_ReturnsInputStripped ==
    (Summarized /\ Len(re_split(text)) <= textArg) => IsStripOf(summary, text)

\* C1 witness: the early return on a text with surrounding whitespace and
\* two sentences.
C1_Witness ==
    /\ Summarized
    /\ Len(re_split(text)) <= textArg
    /\ Len(sentences(text)) = 2
    /\ text # <<>> /\ text[1] \in Whitespace /\ text[Len(text)] \in Whitespace

\* C2: the sentences of the summary are a subsequence of the sentences of
\* the input: they come in increasing sentence index, never in score order.
C2_OriginalOrder ==
    Summarized => IsSubsequence(OutSentences(summary), sentences(text))

\* C2 witness: a summary of two sentences whose rank order is the reverse of
\* their document order.
C2_Witness ==
    /\ Summarized
    /\ textArg = 2
    /\ Len(sentences(text)) > 2
    /\ ranked(text)[1] > ranked(text)[2]

C4_AtMostKDescending ==
    (Extracted /\ textArg >= 0) =>
       /\ Len(kwords) <= textArg
       /\ \A j \in 1..(Len(kwords) - 1) :
             Occurrences(text, kwords[j][1]) >= Occurrences(text, kwords[j + 1][1])

\* C4 witness: two words returned, the first strictly more frequent, and a
\* third word of the table cut off by k.
C4_Witness ==
    /\ Extracted
    /\ textArg = 2
    /\ Len(kwords) = 2
    /\ Occurrences(text, kwords[1][1]) > Occurrences(text, kwords[2][1])
    /\ Len(ExpectedOrder(text)) > 2

\* C5: no stopword and no word of length <= 2 is among the returned keywords.
C5_NoStopwordNoShortWord ==
    Extracted =>
       \A j \in 1..Len(kwords) : kwords[j][1] \notin stop /\ Len(kwords[j][1]) > 2

\* C5 witness: keywords returned for a text that holds a stopword and a
\* word of two letters.
C5_Witness ==
    LET toks == re_findall(lower(text))
    IN  /\ Extracted
        /\ kwords # <<>>
        /\ \E i \in 1..Len(toks) : toks[i] \in stop
        /\ \E i \in 1..Len(toks) : toks[i] \notin stop /\ Len(toks[i]) <= 2

IsMono16k(c) == c.kind = "wav" /\ c.ch = 1 /\ c.rate = 16000

\* the last call normalized what the call before it, through the same
\* implementation, had returned
SecondOfTwo ==
    /\ normPrev.outcome = "return"
    /\ normLast.impl = normPrev.impl
    /\ normLast.arg = normPrev.ret

\* normalize(normalize(x)) returned the path normalize(x) returned, and the
\* file at that path is what it was
SamePathSameFile ==
    SecondOfTwo =>
       /\ normLast.outcome = "return"
       /\ normLast.ret = normPrev.ret
       /\ fs[normLast.ret] = normLast.before[normLast.ret]

\* the last call returned its argument, did not invoke ffmpeg and left the
\* file system as it was
FastPath ==
    /\ normLast.outcome = "return"
    /\ normLast.ret = normLast.arg
    /\ ~normLast.ran
    /\ fs = normLast.before

\* C7 (as stated): normalize(normalize(x)) is normalize(x), same path and
\* same bytes; and an input that is already 1-channel 16000 Hz WAV is
\* returned as the same path, without transcoder and without a new file.
C7_IdempotentFastPathMono16k ==
    /\ SamePathSameFile
    /\ (normLast.impl # "none" /\ IsMono16k(normLast.before[normLast.arg])) => FastPath

\* C7 (amended): normalize(normalize(x)) is normalize(x), same path and same
\* bytes; and an input that is already 1-channel 16000 Hz WAV - for
\* SpeechToText._prepare_audio only if its samples are also 2 bytes wide -
\* is returned as the same path, without transcoder and without a new file.
C7_IdempotentFastPath ==
    /\ SamePathSameFile
    /\ (/\ normLast.impl # "none"
        /\ IsMono16k(normLast.before[normLast.arg])
        /\ normLast.impl = "engine" => normLast.before[normLast.arg].width = 2)
       => FastPath

\* C7 witness: a file was transcoded by ensure_wav_16k_mono, and the path it
\* returned was normalized again.
C7_Witness ==
    /\ SecondOfTwo
    /\ normPrev.impl = "cli"
    /\ normPrev.ran
    /\ normPrev.ret # normPrev.arg
    /\ FastPath

\* C8: normalize returns only paths of 1-channel 16000 Hz audio; when the
\* input is not in that format and ffmpeg is not available, it fails
\* instead of returning a path.
C8_ReturnsOnlyMono16k ==
    /\ normLast.outcome = "return" => IsMono16k(fs[normLast.ret])
    /\ (/\ normLast.impl # "none"
        /\ ~IsMono16k(normLast.before[normLast.arg])
        /\ ~haveFfmpeg)
       => normLast.outcome = "exit"

(***************************************************************************)
(* Properties of transcription.                                            *)
(***************************************************************************)
\* the audio holds no speech: silence only, or no frames at all
NoSpeech(data) == \A i \in 1..Len(data) : data[i] = "sil"

\* C9: transcribing a waveform without recognizable speech (silence, or
\* zero frames) returns an empty text, through the SpeechToText engine and
\* through stt_audio_to_text.
C9_NoSpeechGivesEmptyText ==
    /\ (sttLast.called /\ NoSpeech(sttLast.data)) => sttLast.text = <<>>
    /\ (cli.pc = "done" /\ NoSpeech(fs[cli.wav].frames)) => cli.out = <<>>

\* the text a newly constructed engine returns for the audio data
FreshText(data) ==
    LET acc == AcceptWaveform(NewRecognizer, data)
    IN  IF acc.accepted THEN Result(acc.rec).text ELSE PartialResult(acc.rec)

\* C23: over any sequence of transcribe_audio_file and transcribe_microphone
\* calls on one engine, the text returned for a recording is the text a
\* newly constructed engine returns for it: nothing of an earlier request
\* is carried over.
C23_TextOfThisRequestOnly ==
    sttLast.called => sttLast.text = FreshText(sttLast.data)

\* C10: the model is loaded once, at construction; loading fails whenever
\* the model directory is absent (or holds no usable model) at that moment;
\* and no audio is ever fed to a decoder whose model was not loaded: not by
\* a SpeechToText engine, which does not exist after a failed construction,
\* and not by stt_audio_to_text, which stops at the failed load.
C10_NoDecodeWithoutModel ==
    /\ stt.loads <= 1
    /\ stt.loads = 1 => stt.state = (IF stt.loadedFrom = "present" THEN "Ready" ELSE "Failed")
    /\ stt.loads = 0 => stt.state = "Uninitialized"
    /\ (stt.fed > 0 \/ sttCalls > 0) => (stt.state = "Ready" /\ stt.loadedFrom = "present")
    /\ cli.pc = "model_error" <=> cli.loadedFrom \in {"absent", "partial"}
    /\ cli.pc \in {"feed", "final", "done"} => cli.loadedFrom = "present"
    /\ cli.fed > 0 => cli.loadedFrom = "present"

\* C10 witness: the construction of the engine has failed because the model
\* directory was absent, while a recording was there to be transcribed.
C10_Witness ==
    /\ stt.state = "Failed"
    /\ stt.loadedFrom = "absent"
    /\ stt.loads = 1
    /\ \E p \in DOMAIN fs : ~NoSpeech(fs[p].frames)

(***************************************************************************)
(* Properties of the synthesis engine.                                     *)
(***************************************************************************)
\* the request the last call made has been synthesized with voice v
SynthesizedWith(v) ==
    \E i \in DOMAIN tts.out : tts.out[i].req = ttsCall.n /\ tts.out[i].voice = v

\* the utterance of the last call is still in the queue of the engine
Pending ==
    \E i \in DOMAIN tts.queue :
       tts.queue[i].kind = "say" /\ tts.queue[i].req = ttsCall.n

\* the last call was a blocking one with something to say, and has returned
BlockingReturned ==
    /\ ttsCall.pc = "returned"
    /\ ttsCall.blocking
    /\ ~ttsCall.blank

\* C11: a synthesis request (speak or save to file) with a voice_id that is
\* not among the enumerated voices does not fail and is synthesized with
\* the default voice of the engine.
C11_UnknownVoiceGetsDefault ==
    (BlockingReturned /\ ttsCall.voiceArg = UnknownVoice /\ ~ttsCall.error)
        => SynthesizedWith(DefaultVoice)

\* C16: a blocking synthesis call (speak with blocking=True, save to file)
\* returns only after the event queue of the engine has been drained of the
\* text it submitted; a non-blocking speak returns at once and leaves the
\* work to a detached thread.
C16_BlockingReturnsAfterDrain ==
    /\ BlockingReturned => (~Pending /\ \E v \in VoiceArgs : SynthesizedWith(v))
    /\ (ttsCall.pc = "returned" /\ ~ttsCall.blocking /\ ~ttsCall.blank)
          => bg.req = ttsCall.n

\* an utterance of the thread of the last non-blocking speak
OfThread(u) == bg.pc # "none" /\ u.kind = "say" /\ u.req = bg.req

\* C21: the voice is state of the one engine, and nothing serializes the
\* callers: the thread of a non-blocking speak queues its text with the
\* voice the engine has at that moment, whichever caller selected it, and
\* not with the voice selected when the text was submitted; the two differ
\* only when another call came in between.
C21_VoiceIsEngineWide ==
    /\ [](\A i \in DOMAIN tts.queue :
            (OfThread(tts.queue[i]) /\ tts.queue[i].voice # bg.sel) => ttsCall.n > bg.req)
    /\ [](\A i \in DOMAIN tts.out :
            (bg.pc # "none" /\ tts.out[i].req = bg.req /\ tts.out[i].voice # bg.sel)
                => ttsCall.n > bg.req)
    /\ [][(bg.pc = "start" /\ bg'.pc = "said")
            => /\ tts'.queue = Append(tts.queue, [kind |-> "say", req |-> bg.req,
                                                  voice |-> tts.voice, dest |-> "speaker"])
               /\ tts'.voice = tts.voice]_vars

\* C21 witness: a text submitted through a non-blocking speak when the
\* engine had voice v1 selected has been synthesized with voice v0, which
\* a later call selected before the thread queued the text.
C21_Witness ==
    /\ bg.pc \in {"looping", "done"}
    /\ bg.sel = Voices[2]
    /\ ttsCall.n > bg.req
    /\ ttsCall.voiceArg = Voices[1]
    /\ \E i \in DOMAIN tts.out : tts.out[i].req = bg.req /\ tts.out[i].voice = Voices[1]

(***************************************************************************)
(* Properties of the model bootstrap.                                      *)
(***************************************************************************)
\* C12: a bootstrap call that finds the model directory existing downloads
\* nothing, unpacks nothing and leaves the models directory as it was, so
\* that any number of calls after a successful one change nothing.
C12_NoOpWhenPresent ==
    (bootLast.impl # "none" /\ bootLast.before.dir # "absent")
        => /\ bootLast.after = bootLast.before
           /\ bootLast.attempts = 0
           /\ ~bootLast.failed
           /\ bootLast.outcome \in {"return", "true"}

\* C12 witness: the CLI has fetched the model in an earlier run, and its
\* last bootstrap call found the directory and the archive and did nothing.
C12_Witness ==
    /\ crun.fetched
    /\ bootLast.impl = "ensure_vosk_model"
    /\ bootLast.n >= 2
    /\ bootLast.before = [dir |-> "present", zips |-> {ZipCli}]
    /\ bootLast.attempts = 0

\* C13: a bootstrap whose download or unpack fails ends the process, after
\* a single attempt: neither program goes on past a failed bootstrap, to
\* the start of the application or to a model load.
C13_FailedBootstrapIsFatal ==
    /\ bootLast.attempts <= 1
    /\ bootLast.failed => bootLast.outcome = "exit"
    /\ crun.bootFailed => crun.pc = "exit"
    /\ app.bootFailed => app.pc \notin {"setup_done", "running", "crashed"}

\* C22: the bootstrap call that follows a failed one, whether the download
\* or the unpack failed, finds the model missing and downloads and unpacks
\* again: what a failed attempt left behind never passes for the model.
C22_RetryDownloadsAgain ==
    [][(bootLast.failed /\ bootLast' # bootLast)
          => (bootLast'.before.dir = "absent" /\ bootLast'.attempts = 1)]_vars

\* C20: in both programs the model bootstrap has run before the first load
\* of the acoustic model.
C20_BootstrapBeforeLoad ==
    /\ crun.loads > 0 => crun.bootRan
    /\ app.loads > 0 => app.bootRan

(***************************************************************************)
(* Properties of the exit of the conversion CLI.                           *)
(***************************************************************************)
\* the command line does not parse
UsageError(a) ==
    \/ a.src \notin Modalities
    \/ a.dst \notin Modalities
    \/ a.task \notin Tasks
    \/ ~a.hasInput

\* the audio file needs a conversion
NeedsConversion(a) == ~(a.audio.kind = "wav" /\ a.audio.ch = 1 /\ a.audio.rate = 16000)

\* the fatal conditions that fail() reports, route by route
ReportedFatal(a) ==
    \/ a.src = "audio" /\ a.dst = "audio"
    \/ a.src = "text" /\ a.dst = "audio" /\ (~a.output \/ ~a.pyttsx3)
    \/ /\ a.src = "audio" /\ a.dst = "text"
       /\ \/ ~a.exists
          \/ a.dir = "absent" /\ a.got # "ok"
          \/ ~a.vosk
          \/ NeedsConversion(a) /\ ~a.ffmpeg

\* the failures of the libraries and of ffmpeg, which raise
RaisedFatal(a) ==
    \/ a.src = "text" /\ a.dst = "audio" /\ a.output /\ a.pyttsx3 /\ ~a.ttsOk
    \/ /\ a.src = "audio" /\ a.dst = "text" /\ a.exists /\ a.vosk
       /\ a.dir # "absent" \/ a.got = "ok"
       /\ \/ NeedsConversion(a) /\ a.ffmpeg /\ ~a.audio.ok
          \/ (~NeedsConversion(a) \/ a.ffmpeg) /\ a.dir = "partial"

\* C14, as stated: the exit code is 1, with a message on stderr, for every
\* fatal condition, and 0 in every other case, whatever the command line.
C14_ExitOneOrZero ==
    proc.pc = "done" =>
        IF ReportedFatal(proc.args) \/ RaisedFatal(proc.args)
        THEN proc.exit.code = 1 /\ proc.exit.stderr # "none"
        ELSE proc.exit.code = 0

\* C14, amended: a command line that does not parse exits with code 2 and
\* the usage message; one that parses exits with code 1 and a message on
\* stderr for every fatal condition (the [ERROR] line of fail for the ones
\* the program tests, a traceback for an exception), and with code 0 and
\* nothing on stderr otherwise.
C14_ExitCodes ==
    proc.pc = "done" =>
        LET a == proc.args
        IN  IF UsageError(a)
            THEN proc.exit.code = 2 /\ proc.exit.stderr = "usage"
            ELSE IF ReportedFatal(a)
                 THEN proc.exit.code = 1 /\ proc.exit.stderr = "error"
                 ELSE IF RaisedFatal(a)
                      THEN proc.exit.code = 1 /\ proc.exit.stderr = "traceback"
                      ELSE proc.exit.code = 0 /\ proc.exit.stderr = "none"

\* C14 witness: the run of --from video has ended with the exit of argparse.
C14_Witness ==
    /\ proc.pc = "done"
    /\ proc.args.src = "video"
    /\ proc.exit.code = 2

(***************************************************************************)
(* Properties of the playback.                                             *)
(***************************************************************************)
\* candidate number i is the first one that succeeds when it is run after
\* the ones before it
FirstSuccess(h, i) ==
    /\ h.cmd[Candidates[i]] = "ok"
    /\ \A j \in 1..(i - 1) : h.cmd[Candidates[j]] \in {"missing", "failed"}

\* no candidate player is there
NoneAvailable(h) == \A i \in DOMAIN Candidates : h.cmd[Candidates[i]] = "missing"

\* what the candidates give: they were run in the order of the list, one
\* after the other from the first; the one that succeeds first is the last
\* one run and the only one that played; with none of them there, all were
\* tried and nothing else happened
ByCandidates(h, r) ==
    /\ r.tried = SubSeq(Candidates, 1, Len(r.tried))
    /\ Len(r.played) <= 1
    /\ \A i \in DOMAIN Candidates :
          FirstSuccess(h, i) => (Len(r.tried) = i /\ r.played = <<Candidates[i]>>)
    /\ r.played # <<>> => (r.tried # <<>> /\ FirstSuccess(h, Len(r.tried)))
    /\ NoneAvailable(h) => (r.tried = Candidates /\ r.played = <<>> /\ ~r.raised)

\* C15, as stated: play tries afplay, aplay, paplay, ffplay in that order
\* and stops at the first one that succeeds, so that at most one player
\* plays; with no candidate available it returns normally and has no other
\* effect.
C15_FirstPlayerInOrder ==
    player.pc = "done" => (player.returned /\ ByCandidates(player.host, player.result))

\* C15, amended: that holds where os.name is not 'nt'; on Windows no
\* candidate is run and winsound.PlaySound plays the file, whatever
\* candidates are there; play returns normally in every case.
C15_FirstPlayerInOrderOffWindows ==
    player.pc = "done" =>
        /\ player.returned
        /\ player.host.os # "nt" => ByCandidates(player.host, player.result)
        /\ player.host.os = "nt" =>
              /\ player.result.tried = <<>>
              /\ player.result.played =
                    (IF player.host.winsound = "ok" THEN <<"winsound">> ELSE <<>>)

\* C15 witness: off Windows, with afplay missing and aplay failing, paplay
\* has played the file and ffplay, which would have worked, was not run.
C15_Witness ==
    /\ player.pc = "done"
    /\ player.host.os = "posix"
    /\ player.host.cmd["afplay"] = "missing"
    /\ player.host.cmd["aplay"] = "failed"
    /\ player.host.cmd["ffplay"] = "ok"
    /\ player.result.tried = <<"afplay", "aplay", "paplay">>
    /\ player.result.played = <<"paplay">>

\* a playback thread is inside _play_blocking
Playing == \E i \in DOMAIN player.threads : player.threads[i] = "playing"

\* playback threads were started, and each of them has ended
AllEnded ==
    /\ player.threads # <<>>
    /\ \A i \in DOMAIN player.threads : player.threads[i] \in {"ended", "died"}

\* C24: is_playing is true exactly while a non-blocking playback is
\* running: never false while a playback thread is playing, and never
\* still true once every playback thread has ended.
C24_IsPlayingTracksPlayback ==
    /\ Playing => player.is_playing
    /\ AllEnded => ~player.is_playing

\* C25: upload requests are isolated from each other, whatever their
\* interleaving, two of the same second and file name included: the temp
\* file of a request is not deleted by another one before it has been
\* processed, and each request processes exactly the bytes it uploaded.
C25_UploadsIsolated ==
    \A i \in DOMAIN uploads.reqs :
       LET q == uploads.reqs[i]
       IN  /\ q.pc = "reading" => (~q.detached /\ q.path \in DOMAIN uploads.disk)
           /\ q.pc \in {"done", "error"}
                 => q.processed = [found |-> TRUE, bytes |-> q.bytes]

(***************************************************************************)
(* Properties of the files of a transcription request, of the feeding of   *)
(* the decoder, and of the path of the normalized copy.                    *)
(***************************************************************************)
\* the CLI run has ended, one way or another
CliFinished == cli.pc \in {"done", "exit", "raised", "model_error"}

\* C17: once an audio-to-text request has finished, with or without
\* success, none of the files written for it is left on disk: not the
\* upload saved in the temp directory, not a '.16kmono.wav' copy.
C17_NoFileLeftBehind ==
    /\ CliFinished => cli.made \cap DOMAIN fs = {}
    /\ web.pc = "done" => web.made \cap DOMAIN fs = {}

\* the chunks, one after the other
RECURSIVE Flatten(_)
Flatten(chunks) ==
    IF chunks = <<>> THEN <<>> ELSE Head(chunks) \o Flatten(Tail(chunks))

\* C18: the decoder is fed chunk by chunk and never a whole recording at
\* once: each feed carries at most one chunk, the feeds together are the
\* frames of the recording, each once and in order, and when the input is
\* exhausted the final result is requested, exactly once.
C18_ChunkedFeed ==
    /\ \A i \in DOMAIN cli.feeds : Len(cli.feeds[i]) \in 1..ChunkFrames
    /\ cli.pc \in {"feed", "final", "done"}
          => Flatten(cli.feeds) = SubSeq(fs[cli.wav].frames, 1, cli.pos)
    /\ cli.pc \in {"final", "done"} => cli.pos = Len(fs[cli.wav].frames)
    /\ cli.finals = (IF cli.pc = "done" THEN 1 ELSE 0)
    /\ sttLast.called => Len(sttLast.data) <= ChunkFrames

\* the path q is the sibling of p: the last suffix of p, if it has one,
\* gives way to '.16kmono.wav'
IsSibling(p, q) ==
    /\ Len(q) >= 3
    /\ q[Len(q) - 1] = "16kmono" /\ q[Len(q)] = "wav"
    /\ Len(q) = (IF Len(p) > 1 THEN Len(p) + 1 ELSE 3)
    /\ \A i \in 1..(Len(q) - 2) : q[i] = p[i]

\* C19: a normalize call that transcodes writes a sibling of its input,
\* which is another path than the input whatever the input is called, a
\* name that ends in '.16kmono.wav' included; it writes nothing else, so
\* that the source file is as it was.
C19_SiblingNeverSource ==
    normLast.impl # "none" =>
        /\ normLast.arg \in DOMAIN fs
        /\ fs[normLast.arg] = normLast.before[normLast.arg]
        /\ \A q \in written(normLast.before, fs) :
              normLast.ran /\ IsSibling(normLast.arg, q) /\ q # normLast.arg
        /\ (normLast.ret # <<>> /\ normLast.ret # normLast.arg)
              => (normLast.ran /\ IsSibling(normLast.arg, normLast.ret))

\* C19 witness: a file called a.16kmono.wav has been transcoded, into
\* a.16kmono.16kmono.wav.
C19_Witness ==
    /\ normLast.arg = NameCopy
    /\ normLast.ran
    /\ normLast.ret = <<"a", "16kmono", "16kmono", "wav">>
    /\ normLast.ret \in DOMAIN fs
    /\ fs[NameCopy] = normLast.before[NameCopy]

====
